---- MODULE Spec2Model ----
(***************************************************************************)
(* Variable-refresh-rate controller (event queue, worker thread, state     *)
(* machine, minimum-refresh-rate sub-machine) and the refresh statistics   *)
(* of libhwc2.1/libvrr.                                                    *)
(*                                                                         *)
(* Time is counted in ticks of the steady clock.  Durations that the code  *)
(* gives in nanoseconds are scaled to a few ticks; frequencies keep their  *)
(* values in Hz.                                                           *)
(*                                                                         *)
(* Spec and SpecMin are the controller; SpecStat and SpecStatConc are the  *)
(* statistic, called by one thread and by two.  Left out of the model: the *)
(* vendor rendering timeout (kVendorRenderingTimeoutInit/Post and its      *)
(* tasks), the refresh-rate calculators and the frame-rate reporter, the   *)
(* display-brightness events, reset(), onVsync() and the dump of the       *)
(* statistic.                                                              *)
(***************************************************************************)
EXTENDS Bags, FiniteSets, Integers, Naturals, Sequences, TLC

-----------------------------------------------------------------------------
(* Bounds of the exploration *)
MaxTime == 2
MaxQueue == 2
MaxRequests == 4
MaxLockRequests == 6
MaxStatTime == 253
MaxShortTicks == 3
MaxStatCalls == 4

-----------------------------------------------------------------------------
(* Program constants *)
HWC_POWER_MODE_OFF == 0
HWC_POWER_MODE_DOZE == 1
HWC_POWER_MODE_NORMAL == 2
HWC_POWER_MODE_DOZE_SUSPEND == 3

PowerModes == {HWC_POWER_MODE_OFF, HWC_POWER_MODE_DOZE, HWC_POWER_MODE_NORMAL,
               HWC_POWER_MODE_DOZE_SUSPEND}

\* An event type is the set of the bit positions set in its enum value.
kGeneralEventMask == {28}
kSystemRenderingTimeout == {28, 0}
kVendorRenderingTimeoutInit == {28, 1}
kVendorRenderingTimeoutPost == {28, 2}
kHibernateTimeout == {28, 3}
kNotifyExpectedPresentConfig == {28, 4}
kCallbackEventMask == {29}
kMinLockTimeForPeakRefreshRate == {29, 7}
kMinimumRefreshRateControlEventMask == {30}
kMinimumRefreshRateAlignWithPresent == {30, 0}
kMinimumRefreshRateWaitForConfigTimeout == {30, 1}

\* Durations, in ticks.
kDefaultWakeUpTimeInPowerSaving == 1
kDefaultSystemPresentTimeoutNs == 2
kWaitForConfigTimeoutNs == 2
kNanosPerSecond == 1000000000

-----------------------------------------------------------------------------
VARIABLES
    now,                \* steady clock
    mState,             \* VrrControllerState
    mEnabled,
    mThreadExit,
    mPowerMode,
    mEventQueue,        \* mEventQueue.mPriorityQueue, a bag of events
    wpc,                \* position of the worker thread in threadBody
    wakeAt,             \* end of the worker's timed wait
    notified,           \* a notify_all reached the waiting worker
    mNextExpectedPresentTime,     \* mRecord.mNextExpectedPresentTime.has_value()
    mPendingCurrentPresentTime,   \* mRecord.mPendingCurrentPresentTime, -1 = nullopt
    mLastExpectedPresentTimeNs,
    opc,                \* position of the presenting thread in onPresent(fence)
    mVrrConfigs,        \* configuration table, id -> VrrConfig_t
    mVrrActiveConfig,
    mValidRefreshRates, \* id -> the valid refresh rates of the configuration
    mMinimumRefreshRate,
    mPendingMinimumRefreshRateRequest,  \* 0 = nullopt
    mMaximumRefreshRateTimeoutNs,
    mMinimumRefreshRatePresentState,
    mMinimumRefreshRateTimeoutEvent,    \* "nullopt", "functor" or "moved"
    mMinimumRefreshRateTimeoutWhenNs,   \* its mWhenNs, 0 when nullopt
    mPresentTimeoutController,
    mDefaultPresentTimeoutController,
    refreshControl,     \* last written value of the refresh-control node
    lastEvent,          \* the event handled by the last worker dispatch
    lastCall,           \* the call of onPresent(fence) made by the last step
    requests,           \* requests made under the request budget
    bootClock,          \* getBootClockTimeNs(), in ticks of the boot clock
    statistic,          \* the fields of the VariableRefreshRateStatistic
    updatedStatistics,  \* the map the last getUpdatedStatistics() returned
    getsInARow,         \* getUpdatedStatistics() calls since any other call
    statCalls,          \* calls made to the statistic
    tpc,                \* position of each thread inside its statistic call
    tcall,              \* the statistic call each thread is making
    tloc,               \* the locals of updateIdleStats on each thread
    roundBase,          \* the statistic when the overlapping calls began
    roundCalls,         \* the calls that overlap, in the order they began
    ratesConfig,        \* the configuration the valid rates are generated for
    ratesTarget,        \* the rate handed to convertToValidRefreshRate
    validRefreshRates,  \* mValidRefreshRates[mVrrActiveConfig]
    validRefreshRate,   \* what convertToValidRefreshRate returned, -1 before
    rpc,                \* "start", "generated" or "converted"
    nameProfiles,       \* the refresh profiles state names are generated for
    stateNames,         \* the state names generated, in the order of the calls
    powerModeChange,    \* the preSetPowerMode whose postSetPowerMode is due
    listenerCalls,      \* the onPowerStateChange calls of the last postSetPowerMode
    mMutex,             \* the thread that holds mMutex, "free" when none does
    tio,                \* the call each thread is inside and its position in it
    nodeWrite,          \* the last writeValue: its node, and whether its
                        \* thread held mMutex
    orderKeys,          \* the statistics keys operator< is applied to
    orderLess,          \* what operator< returned for each pair of them
    provider,           \* the DisplayStateResidencyProvider
    gotStates,          \* what the calls of getStates returned
    mutexState          \* the owners of the controller's and the statistic's
                        \* mutex, and each thread's position in its call

workerVars == <<wpc, wakeAt>>
recVars == <<mNextExpectedPresentTime, mPendingCurrentPresentTime,
             mLastExpectedPresentTimeNs>>
cfgVars == <<mVrrConfigs, mVrrActiveConfig, mValidRefreshRates>>
minVars == <<mMinimumRefreshRate, mPendingMinimumRefreshRateRequest,
             mMaximumRefreshRateTimeoutNs, mMinimumRefreshRatePresentState,
             mMinimumRefreshRateTimeoutEvent, mMinimumRefreshRateTimeoutWhenNs,
             mPresentTimeoutController,
             mDefaultPresentTimeoutController, refreshControl>>

ctrlVars == <<now, mState, mEnabled, mThreadExit, mPowerMode, mEventQueue,
              workerVars, notified, recVars, opc, cfgVars, minVars, lastEvent,
              lastCall>>

statVars == <<bootClock, statistic, updatedStatistics, getsInARow, statCalls,
              tpc, tcall, tloc, roundBase, roundCalls>>

rateVars == <<ratesConfig, ratesTarget, validRefreshRates, validRefreshRate,
              rpc>>

nameVars == <<nameProfiles, stateNames>>

orderVars == <<orderKeys, orderLess>>

providerVars == <<provider, gotStates>>

pureVars == <<rateVars, nameVars, orderVars, providerVars>>

powerVars == <<powerModeChange, listenerCalls>>

ioVars == <<mMutex, tio, nodeWrite, mutexState>>

statRestVars == <<bootClock, updatedStatistics, getsInARow, statCalls,
                  tpc, tcall, tloc, roundBase, roundCalls>>

vars == <<ctrlVars, requests, statVars, pureVars, powerVars, ioVars>>

-----------------------------------------------------------------------------
(* Utilities *)

Min(a, b) == IF a < b THEN a ELSE b
Max(a, b) == IF a > b THEN a ELSE b

roundDivide(divident, divisor) ==
    IF divident < 0 \/ divisor <= 0 THEN 0
    ELSE (divident + (divisor \div 2)) \div divisor

durationNsToFreq(durationNs) == roundDivide(kNanosPerSecond, durationNs)

-----------------------------------------------------------------------------
(* Event queue *)

Event(type, when, functor) ==
    [mEventType |-> type, mWhenNs |-> when, mFunctor |-> functor]

NoEvent == [mEventType |-> {}, mWhenNs |-> -1, mFunctor |-> FALSE]

\* A call of onPresent(fence) and the state it found; NoCall for any other step
PresentCall(state, pending) == [state |-> state, pending |-> pending]

NoCall == PresentCall("", FALSE)

postEvent(q, type, when) == q (+) SetToBag({Event(type, when, FALSE)})

\* postEvent(type, timedEvent): the event takes the functor of the timed event
postTimedEvent(q, type, when, timedEvent) ==
    q (+) SetToBag({Event(type, when, timedEvent = "functor")})

\* A drop that removes nothing
dropEventLockedKeepsAll(q, target) == q

\* dropEventLocked(eventType): keeps the events with (type & target) != target
dropEventLocked(q, target) ==
    LET keep == {e \in BagToSet(q) : ~(target \subseteq e.mEventType)}
    IN  [e \in keep |-> q[e]]

QueueEmpty(q) == BagToSet(q) = {}

\* A top() that ignores the deadlines
TopEventsUnordered(q) == BagToSet(q)

\* priority_queue::top() under VrrControllerEvent::operator<: an event of
\* least mWhenNs; which one among equal deadlines is left to the heap.
TopEvents(q) ==
    {e \in BagToSet(q) : \A f \in BagToSet(q) : e.mWhenNs <= f.mWhenNs}

getNextEventTimeLocked(q) ==
    IF QueueEmpty(q) THEN -1 ELSE (CHOOSE e \in TopEvents(q) : TRUE).mWhenNs

PopEvent(q, e) == q (-) SetToBag({e})

HasEvent(q, type) == \E e \in BagToSet(q) : e.mEventType = type

-----------------------------------------------------------------------------
(* Configurations *)

VrrConfig(vsync, minFrame, full, timeout) ==
    [vsyncPeriodNs |-> vsync, minFrameIntervalNs |-> minFrame,
     isFullySupported |-> full, TimeoutNs |-> timeout]

\* The value unordered_map::operator[] inserts for an absent id.
DefaultVrrConfig == VrrConfig(0, 0, FALSE, 0)

\* The table the display hands to setVrrConfigurations: a 120 Hz
\* configuration driven at 120 Hz, fully supported, and a 120 Hz
\* configuration driven at a 240 Hz TE.
ConfigTable ==
    (0 :> VrrConfig(8333333, 8333333, TRUE, 1)) @@
    (1 :> VrrConfig(4166666, 8333333, FALSE, 0))

\* mVrrConfigs[id]: the stored configuration, a default one if absent ...
ConfigAt(configs, id) ==
    IF id \in DOMAIN configs THEN configs[id] ELSE DefaultVrrConfig

\* ... which operator[] then leaves in the table.
Touch(configs, id) ==
    IF id \in DOMAIN configs THEN configs ELSE configs @@ (id :> DefaultVrrConfig)

CountConfigOne(configs, id) == 1

\* mVrrConfigs.count(id)
CountConfig(configs, id) == IF id \in DOMAIN configs THEN 1 ELSE 0

ConfigReady(cfg) ==
    durationNsToFreq(cfg.vsyncPeriodNs) = durationNsToFreq(cfg.minFrameIntervalNs)

-----------------------------------------------------------------------------
(* Refresh-control node *)

RefreshControlZero == [valid |-> FALSE, auto |-> FALSE, minRate |-> 0, frameCount |-> 0]

\* getCurrentRefreshControlStateLocked: the last written value, else 0
getCurrentRefreshControlStateLocked(rc) ==
    IF rc.valid THEN rc ELSE RefreshControlZero

\* FileNode::writeValue: the cache keeps the value only when the write succeeds
writeValue(rc, command, ok) ==
    IF ok THEN [command EXCEPT !.valid = TRUE] ELSE rc

isMinimumRefreshRateActiveNever(minimumRefreshRate) == FALSE

isMinimumRefreshRateActive(minimumRefreshRate) == minimumRefreshRate > 1

-----------------------------------------------------------------------------
(* The refresh statistics: VariableRefreshRateStatistic.                   *)
(* Its clock is the boot clock, counted in ticks of 1/240 s, which makes   *)
(* the TE interval of the 120 Hz panel two ticks.                          *)

BootClockHz == 240      \* std::nano::den, in ticks of the boot clock
kUint64Range == 1073741824  \* the range of uint64_t, scaled to 2^30
kMaxFrameRate == 120
kMaxRefreshIntervalNs == BootClockHz
kFrameRateWhenPresentAtLpMode == 30
kDefaultInvalidPresentTimeNs == -1

kRefreshSourceActivePresent == 1
kRefreshSourceIdlePresent == 2
kRefreshSourceFrameInsertion == 4
kRefreshSourceBrightness == 8
kRefreshSourcePresentMask ==
    {kRefreshSourceActivePresent, kRefreshSourceIdlePresent}

isPresentRefresh(refreshSource) == refreshSource \in kRefreshSourcePresentMask

isPowerModeOff(powerMode) ==
    powerMode \in {HWC_POWER_MODE_OFF, HWC_POWER_MODE_DOZE_SUSPEND}

\* The conversion of a signed value stored in a uint64_t field
ToUint64(x) == x % kUint64Range

\* The constructor is given kMaxFrameRate as the TE frequency.
mTeFrequency == kMaxFrameRate
mTeIntervalNs == roundDivide(BootClockHz, mTeFrequency)

\* BrightnessMode, in the order of its enumerators
BrightnessRank(brightnessMode) ==
    CASE brightnessMode = "kNormalBrightnessMode" -> 0
      [] brightnessMode = "kHighBrightnessMode" -> 1
      [] OTHER -> 2

\* DisplayRefreshProfile with its DisplayStatus; the configuration id, the
\* width and the height are those of the one configuration of the panel.
DisplayRefreshProfile(powerMode, brightnessMode, numVsync, refreshSource) ==
    [mPowerMode |-> powerMode, mBrightnessMode |-> brightnessMode,
     mNumVsync |-> numVsync, mRefreshSource |-> refreshSource]

DefaultDisplayRefreshProfile ==
    DisplayRefreshProfile(HWC_POWER_MODE_OFF, "kInvalidBrightnessMode", -1,
                          kRefreshSourceActivePresent)

isOff(profile) == isPowerModeOff(profile.mPowerMode)

\* DisplayStatus::operator== and operator< of two keys of the panel's one
\* configuration, whose mActiveConfigId are equal
DisplayStatusEquals(a, b) ==
    IF isOff(a) \/ isOff(b) THEN isOff(a) = isOff(b)
    ELSE a.mPowerMode = b.mPowerMode /\ a.mBrightnessMode = b.mBrightnessMode

DisplayStatusLess(a, b) ==
    IF isOff(a) /\ isOff(b) THEN FALSE
    ELSE IF a.mPowerMode # b.mPowerMode
         THEN isOff(a) \/ a.mPowerMode < b.mPowerMode
         ELSE BrightnessRank(a.mBrightnessMode) < BrightnessRank(b.mBrightnessMode)

\* An order of the keys that tells the off profiles apart
DisplayRefreshProfileLessByFields(a, b) ==
    IF a.mPowerMode # b.mPowerMode THEN a.mPowerMode < b.mPowerMode
    ELSE IF a.mBrightnessMode # b.mBrightnessMode
    THEN BrightnessRank(a.mBrightnessMode) < BrightnessRank(b.mBrightnessMode)
    ELSE IF a.mNumVsync # b.mNumVsync THEN a.mNumVsync < b.mNumVsync
    ELSE a.mRefreshSource < b.mRefreshSource

\* DisplayRefreshProfile::operator<, the order of the keys of the map
DisplayRefreshProfileLess(a, b) ==
    IF (isOff(a) \/ isOff(b)) /\ isOff(a) = isOff(b) THEN FALSE
    ELSE IF ~DisplayStatusEquals(a, b) THEN DisplayStatusLess(a, b)
    ELSE IF a.mNumVsync # b.mNumVsync THEN a.mNumVsync < b.mNumVsync
    ELSE a.mRefreshSource < b.mRefreshSource

\* Two profiles are one key of the std::map when neither is less.
SameKey(a, b) ==
    ~DisplayRefreshProfileLess(a, b) /\ ~DisplayRefreshProfileLess(b, a)

DisplayRefreshRecord ==
    [mCount |-> 0, mAccumulatedTimeNs |-> 0,
     mLastTimeStampInBootClockNs |-> 0, mUpdated |-> FALSE]

\* mStatistics[profile]: the stored key, the record read, the record written
KeyOf(statistics, profile) ==
    IF \E k \in DOMAIN statistics : SameKey(k, profile)
    THEN CHOOSE k \in DOMAIN statistics : SameKey(k, profile)
    ELSE profile

RecordAt(statistics, profile) ==
    IF KeyOf(statistics, profile) \in DOMAIN statistics
    THEN statistics[KeyOf(statistics, profile)]
    ELSE DisplayRefreshRecord

Assign(statistics, profile, record) ==
    LET key == KeyOf(statistics, profile) IN
    [k \in DOMAIN statistics \cup {key} |->
        IF k = key THEN record ELSE statistics[k]]

\* The object the constructor leaves, built when the boot clock shows t
NewStatistic(t) ==
    [mStatistics |-> (DefaultDisplayRefreshProfile :> DisplayRefreshRecord),
     mDisplayRefreshProfile |-> DefaultDisplayRefreshProfile,
     mLastRefreshTimeInBootClockNs |-> kDefaultInvalidPresentTimeNs,
     mPowerOffDurationNs |-> 0,
     mMinimumRefreshRate |-> 1,
     mMaximumFrameIntervalNs |-> kMaxRefreshIntervalNs,
     mStartStatisticTimeNs |-> t]

\* The threads that call the statistic: the power-stats reporter and the
\* controller, whose calls are serialised by the controller's own mutex.
StatThreads == {"reporter", "controller"}

NoStatCall == [name |-> "none"]
NoLocals == [kind |-> "none", durationFromLastPresentNs |-> 0,
             endTimeStampInBootClockNs |-> 0, count |-> 0,
             alignedDurationNs |-> 0]

-----------------------------------------------------------------------------
Waiting == {"waitEnabled", "waitEmpty", "waitTimed"}

\* mCondition.notify_all(): reaches the worker only if it is waiting
notify_all == IF wpc \in Waiting THEN TRUE ELSE notified

\* No power mode change is under way and no listener was called
NoPowerModeChange == [to |-> -1, interleaved |-> FALSE]
NoListenerCalls == [from |-> -1, to |-> -1, listeners |-> {}]

\* The threads that call the controller, and its worker thread
IoThreads == {"composer", "binder", "worker"}

NoIo == [t \in IoThreads |-> [call |-> "none", pc |-> 0]]
NoNodeWrite == [node |-> "none", locked |-> FALSE]

\* The threads that take the mutexes: the callers of the controller, its
\* worker, and the thread that reads the residencies
LockThreads == {"composer", "binder", "worker", "reporter"}
Mutexes == {"controller", "statistic"}

NoLocks ==
    [owner |-> [m \in Mutexes |-> "free"],
     at |-> [t \in LockThreads |-> [call |-> "none", pc |-> 0]]]

Constructed ==
    /\ now = 0
    /\ mState = "kDisable"
    /\ mEnabled = FALSE
    /\ mThreadExit = FALSE
    /\ mPowerMode = HWC_POWER_MODE_OFF
    /\ mEventQueue = EmptyBag
    /\ wpc = "start"
    /\ wakeAt = 0
    /\ notified = FALSE
    /\ mNextExpectedPresentTime = FALSE
    /\ mPendingCurrentPresentTime = -1
    /\ mLastExpectedPresentTimeNs = 0
    /\ opc = "idle"
    /\ mVrrConfigs = <<>>
    /\ mVrrActiveConfig = -1
    /\ mValidRefreshRates = <<>>
    /\ mMinimumRefreshRate = 1
    /\ mPendingMinimumRefreshRateRequest = 0
    /\ mMaximumRefreshRateTimeoutNs = 0
    /\ mMinimumRefreshRatePresentState = "kMinRefreshRateUnset"
    /\ mMinimumRefreshRateTimeoutEvent = "nullopt"
    /\ mMinimumRefreshRateTimeoutWhenNs = 0
    /\ mPresentTimeoutController = "kSoftware"
    /\ mDefaultPresentTimeoutController = "kSoftware"
    /\ refreshControl = RefreshControlZero
    /\ lastEvent = NoEvent
    /\ lastCall = NoCall
    /\ requests = 0
    /\ bootClock = 0
    /\ statistic = NewStatistic(0)
    /\ updatedStatistics = <<>>
    /\ getsInARow = 0
    /\ statCalls = 0
    /\ tpc = [th \in StatThreads |-> "idle"]
    /\ tcall = [th \in StatThreads |-> NoStatCall]
    /\ tloc = [th \in StatThreads |-> NoLocals]
    /\ roundBase = NewStatistic(0)
    /\ roundCalls = <<>>
    /\ powerModeChange = NoPowerModeChange
    /\ listenerCalls = NoListenerCalls
    /\ mMutex = "free"
    /\ tio = NoIo
    /\ nodeWrite = NoNodeWrite
    /\ mutexState = NoLocks

\* No configuration is known: the table and the lists of valid rates are empty
NoRates ==
    /\ ratesConfig = DefaultVrrConfig
    /\ ratesTarget = 0
    /\ validRefreshRates = <<>>
    /\ validRefreshRate = -1
    /\ rpc = "start"

\* No state name was generated
NoNames ==
    /\ nameProfiles = <<>>
    /\ stateNames = <<>>

\* No key was compared, and no residency provider is looked at
NoOrder ==
    /\ orderKeys = <<>>
    /\ orderLess = <<>>
    /\ provider = <<>>
    /\ gotStates = <<>>

Init ==
    /\ Constructed
    /\ NoRates
    /\ NoNames
    /\ NoOrder

Tick ==
    /\ now < MaxTime
    /\ now' = now + 1
    /\ lastEvent' = NoEvent
    /\ lastCall' = NoCall
    /\ UNCHANGED <<mState, mEnabled, mThreadExit, mPowerMode, mEventQueue,
                   workerVars, notified, recVars, opc, cfgVars, minVars>>

-----------------------------------------------------------------------------
(* Helpers shared by the public operations and the worker *)

CanPost == BagCardinality(mEventQueue) < MaxQueue

Alive == ~mThreadExit

\* A cancellation that drops nothing
cancelPresentTimeoutHandlingLockedKeeps(q) == q
cancelPresentTimeoutHandlingLocked(q) ==
    dropEventLocked(dropEventLocked(q, kVendorRenderingTimeoutInit),
                    kVendorRenderingTimeoutPost)

\* What postEvent(type, timedEvent) leaves in the timed event: it moves the
\* functor out, and a moved-from std::function is valid but unspecified.
MovedFrom(timedEvent) ==
    IF timedEvent = "functor" THEN {"moved", "functor"} ELSE {timedEvent}

\* Delay of the settle step, (1 s / minimum rate) + 1 ms, in ticks.
SettleDelayNs(minimumRefreshRate) == 1

\* A worker that leaves the sub-state armed when the floor is taken away
setFixedRefreshRateRangeWorkerKeepsState(minRate, rc, ctl, defCtl, maxTimeout, pstate, tev, when, q, ok) ==
    LET command == getCurrentRefreshControlStateLocked(rc)
        cmd == [command EXCEPT !.auto = isMinimumRefreshRateActive(minRate),
                               !.minRate = minRate]
    IN  [ret |-> IF ok THEN 1 ELSE -1,
         rc |-> writeValue(rc, cmd, ok),
         ctl |-> IF isMinimumRefreshRateActive(minRate) /\ ok
                 THEN "kHardware" ELSE defCtl,
         maxTimeout |-> maxTimeout,
         pstate |-> "kAtMinimumRefreshRate",
         tev |-> "functor",
         when |-> 0,
         q |-> q]

\* setFixedRefreshRateRangeWorker: the values it leaves and what it returns.
setFixedRefreshRateRangeWorker(minRate, rc, ctl, defCtl, maxTimeout, pstate, tev, when, q, ok) ==
    LET command == getCurrentRefreshControlStateLocked(rc) IN
    IF isMinimumRefreshRateActive(minRate)
    THEN LET cmd == [command EXCEPT !.auto = TRUE, !.minRate = minRate]
         IN  [ret |-> IF ok THEN 1 ELSE -1,
              rc |-> writeValue(rc, cmd, ok),
              ctl |-> IF ok THEN "kHardware" ELSE ctl,
              maxTimeout |-> maxTimeout,
              pstate |-> "kAtMinimumRefreshRate",
              tev |-> "functor",
              when |-> 0,
              q |-> cancelPresentTimeoutHandlingLocked(q)]
    ELSE LET cmd == [command EXCEPT !.auto = FALSE, !.minRate = 1]
             writes == defCtl = "kSoftware"
             failed == writes /\ ~ok
         IN  [ret |-> IF failed THEN -1 ELSE 1,
              rc |-> IF writes THEN writeValue(rc, cmd, ok) ELSE rc,
              ctl |-> defCtl,
              maxTimeout |-> IF failed THEN maxTimeout ELSE 0,
              pstate |-> IF failed THEN pstate ELSE "kMinRefreshRateUnset",
              tev |-> IF failed THEN tev ELSE "nullopt",
              when |-> IF failed THEN when ELSE 0,
              q |-> q]

-----------------------------------------------------------------------------
(* Public operations *)

notifyExpectedPresent ==
    /\ Alive /\ CanPost
    /\ mNextExpectedPresentTime' = TRUE
    /\ mEventQueue' = postEvent(mEventQueue, kNotifyExpectedPresentConfig, now)
    /\ notified' = notify_all
    /\ lastEvent' = NoEvent
    /\ lastCall' = NoCall
    /\ UNCHANGED <<now, mState, mEnabled, mThreadExit, mPowerMode, workerVars,
                   mPendingCurrentPresentTime, mLastExpectedPresentTimeNs,
                   opc, cfgVars, minVars>>

\* A setEnable that drops no event
setEnableKeepsQueue(isEnabled) ==
    /\ Alive
    /\ lastEvent' = NoEvent
    /\ lastCall' = NoCall
    /\ IF mEnabled = isEnabled
       THEN UNCHANGED <<mEnabled, mEventQueue, notified>>
       ELSE /\ mEnabled' = isEnabled
            /\ mEventQueue' = mEventQueue
            /\ notified' = notify_all
    /\ UNCHANGED <<now, mState, mThreadExit, mPowerMode, workerVars, recVars,
                   opc, cfgVars, minVars>>

setEnable(isEnabled) ==
    /\ Alive
    /\ lastEvent' = NoEvent
    /\ lastCall' = NoCall
    /\ IF mEnabled = isEnabled
       THEN UNCHANGED <<mEnabled, mEventQueue, notified>>
       ELSE /\ mEnabled' = isEnabled
            /\ mEventQueue' = IF isEnabled THEN mEventQueue ELSE EmptyBag
            /\ notified' = notify_all
    /\ UNCHANGED <<now, mState, mThreadExit, mPowerMode, workerVars, recVars,
                   opc, cfgVars, minVars>>

stopThread(exit) ==
    /\ Alive
    /\ mThreadExit' = exit
    /\ mEnabled' = FALSE
    /\ mState' = "kDisable"
    /\ notified' = notify_all
    /\ lastEvent' = NoEvent
    /\ lastCall' = NoCall
    /\ UNCHANGED <<now, mPowerMode, mEventQueue, workerVars, recVars, opc,
                   cfgVars, minVars>>

\* std::set<int>: the elements in increasing order
RECURSIVE SortedSeq(_)
SortedSeq(S) ==
    IF S = {} THEN <<>>
    ELSE LET least == CHOOSE x \in S : \A y \in S : x <= y IN
         <<least>> \o SortedSeq(S \ {least})

\* Rates from one vsync per frame on, whatever the minimum frame interval
generateValidRefreshRatesFromOne(config) ==
    LET teFrequency == durationNsToFreq(config.vsyncPeriodNs)
        minVsyncNum == 1
        refreshRates == {roundDivide(teFrequency, vsyncNum) :
                             vsyncNum \in minVsyncNum .. teFrequency}
    IN  SortedSeq(refreshRates)

generateValidRefreshRates(config) ==
    LET teFrequency == durationNsToFreq(config.vsyncPeriodNs)
        minVsyncNum == roundDivide(config.minFrameIntervalNs,
                                   config.vsyncPeriodNs)
        refreshRates == {roundDivide(teFrequency, vsyncNum) :
                             vsyncNum \in minVsyncNum .. teFrequency}
    IN  SortedSeq(refreshRates)

\* std::lower_bound over the list of the active configuration; config is
\* mVrrConfigs[mVrrActiveConfig]
convertToValidRefreshRate(rates, config, refreshRate) ==
    LET it == {i \in 1 .. Len(rates) : rates[i] >= refreshRate} IN
    IF it # {} THEN rates[CHOOSE i \in it : \A j \in it : i <= j]
    ELSE durationNsToFreq(config.minFrameIntervalNs)

\* The configurations handed to setVrrConfigurations: vsync periods of 120
\* and 240 Hz, fully supported with and without notifyExpectedPresentConfig,
\* or not fully supported
ConfigurationInputs ==
    {VrrConfig(vsync, minFrame, support[1], support[2]) :
         vsync \in {8333333, 4166666}, minFrame \in {8333333, 16666666},
         support \in {<<TRUE, 1>>, <<TRUE, -1>>, <<FALSE, 0>>}}

\* generateValidRefreshRates of each of them, computed once
ValidRefreshRatesOf ==
    [config \in ConfigurationInputs |-> generateValidRefreshRates(config)]

\* config.notifyExpectedPresentConfig.has_value(); a TimeoutNs of -1 stands
\* for a configuration without notifyExpectedPresentConfig
HasNotifyExpectedPresentConfigAlways(config) == TRUE

HasNotifyExpectedPresentConfig(config) == config.TimeoutNs >= 0

setVrrConfigurations(configs) ==
    LET rejected ==
            \E id \in DOMAIN configs :
                /\ configs[id].isFullySupported
                /\ ~HasNotifyExpectedPresentConfig(configs[id])
    IN
    /\ Alive
    /\ IF rejected
       THEN UNCHANGED <<mVrrConfigs, mValidRefreshRates>>
       ELSE /\ mVrrConfigs' = configs
            /\ mValidRefreshRates' =
                   [id \in DOMAIN configs |-> ValidRefreshRatesOf[configs[id]]]
    /\ lastEvent' = NoEvent
    /\ lastCall' = NoCall
    /\ UNCHANGED <<now, mState, mEnabled, mThreadExit, mPowerMode, mEventQueue,
                   workerVars, notified, recVars, opc, mVrrActiveConfig,
                   minVars>>

preSetPowerMode(powerMode, ok) ==
    /\ Alive
    /\ lastEvent' = NoEvent
    /\ lastCall' = NoCall
    /\ IF mPowerMode = powerMode
       THEN UNCHANGED <<mEventQueue, mPresentTimeoutController, refreshControl>>
       ELSE IF powerMode \in {HWC_POWER_MODE_DOZE, HWC_POWER_MODE_DOZE_SUSPEND}
       THEN LET command == getCurrentRefreshControlStateLocked(refreshControl)
            IN  /\ mPresentTimeoutController' = "kHardware"
                /\ refreshControl' =
                       writeValue(refreshControl, [command EXCEPT !.auto = TRUE], ok)
                /\ mEventQueue' = cancelPresentTimeoutHandlingLocked(mEventQueue)
       ELSE IF powerMode = HWC_POWER_MODE_NORMAL
       THEN /\ mPresentTimeoutController' = mDefaultPresentTimeoutController
            /\ UNCHANGED <<mEventQueue, refreshControl>>
       ELSE UNCHANGED <<mEventQueue, mPresentTimeoutController, refreshControl>>
    /\ UNCHANGED <<now, mState, mEnabled, mThreadExit, mPowerMode, workerVars,
                   notified, recVars, opc, cfgVars, mMinimumRefreshRate,
                   mPendingMinimumRefreshRateRequest,
                   mMaximumRefreshRateTimeoutNs, mMinimumRefreshRatePresentState,
                   mMinimumRefreshRateTimeoutEvent,
                   mMinimumRefreshRateTimeoutWhenNs,
                   mDefaultPresentTimeoutController>>

postSetPowerMode(powerMode) ==
    /\ Alive
    /\ lastEvent' = NoEvent
    /\ lastCall' = NoCall
    /\ IF mPowerMode = powerMode \/ powerMode \notin PowerModes
       THEN UNCHANGED <<mState, mEventQueue, mVrrConfigs, mPowerMode, notified>>
       ELSE /\ IF powerMode = HWC_POWER_MODE_NORMAL
               THEN LET vrrConfig == ConfigAt(mVrrConfigs, mVrrActiveConfig)
                    IN  /\ mState' = "kRendering"
                        /\ mVrrConfigs' = Touch(mVrrConfigs, mVrrActiveConfig)
                        /\ IF vrrConfig.isFullySupported
                           THEN /\ CanPost
                                /\ mEventQueue' =
                                     postEvent(mEventQueue, kSystemRenderingTimeout,
                                               now + vrrConfig.TimeoutNs)
                           ELSE UNCHANGED mEventQueue
               ELSE /\ mState' = "kDisable"
                    /\ mEventQueue' = dropEventLocked(mEventQueue, kGeneralEventMask)
                    /\ UNCHANGED mVrrConfigs
            /\ mPowerMode' = powerMode
            /\ notified' = notify_all
    /\ UNCHANGED <<now, mEnabled, mThreadExit, workerVars, recVars, opc,
                   mVrrActiveConfig, mValidRefreshRates, minVars>>

setPresentTimeoutController(controllerType, ok) ==
    /\ Alive
    /\ lastEvent' = NoEvent
    /\ lastCall' = NoCall
    /\ IF mPowerMode # HWC_POWER_MODE_NORMAL \/
          controllerType = mDefaultPresentTimeoutController
       THEN UNCHANGED <<mEventQueue, mPresentTimeoutController,
                        mDefaultPresentTimeoutController, refreshControl>>
       ELSE LET newCtl == IF controllerType = "kHardware" THEN "kHardware"
                          ELSE IF ~isMinimumRefreshRateActive(mMinimumRefreshRate)
                               THEN "kSoftware"
                               ELSE mPresentTimeoutController
                command == getCurrentRefreshControlStateLocked(refreshControl)
            IN  /\ mDefaultPresentTimeoutController' = controllerType
                /\ mPresentTimeoutController' = newCtl
                /\ IF newCtl = mPresentTimeoutController
                   THEN UNCHANGED <<mEventQueue, refreshControl>>
                   ELSE IF newCtl = "kHardware"
                   THEN /\ mEventQueue' =
                               cancelPresentTimeoutHandlingLocked(mEventQueue)
                        /\ refreshControl' =
                               writeValue(refreshControl,
                                          [command EXCEPT !.auto = TRUE], ok)
                   ELSE /\ UNCHANGED mEventQueue
                        /\ refreshControl' =
                               writeValue(refreshControl,
                                          [command EXCEPT !.auto = FALSE], ok)
    /\ UNCHANGED <<now, mState, mEnabled, mThreadExit, mPowerMode, workerVars,
                   notified, recVars, opc, cfgVars, mMinimumRefreshRate,
                   mPendingMinimumRefreshRateRequest,
                   mMaximumRefreshRateTimeoutNs, mMinimumRefreshRatePresentState,
                   mMinimumRefreshRateTimeoutEvent,
                   mMinimumRefreshRateTimeoutWhenNs>>

\* The minimum rates and lock durations callers ask for.
RateInputs == {0, 30, 120}
LockInputs == {0, 1}

setFixedRefreshRateRange(minimumRefreshRateIn, minLockTimeForPeakRefreshRate, ok) ==
    LET minimumRefreshRate ==
            IF minimumRefreshRateIn = 0 THEN 1 ELSE minimumRefreshRateIn
        dropped == dropEventLocked(mEventQueue, kMinimumRefreshRateControlEventMask)
        w == setFixedRefreshRateRangeWorker(
                 minimumRefreshRate, refreshControl, mPresentTimeoutController,
                 mDefaultPresentTimeoutController, minLockTimeForPeakRefreshRate,
                 mMinimumRefreshRatePresentState, mMinimumRefreshRateTimeoutEvent,
                 mMinimumRefreshRateTimeoutWhenNs,
                 dropped, ok)
    IN
    /\ Alive
    /\ lastEvent' = NoEvent
    /\ lastCall' = NoCall
    /\ IF mPowerMode = HWC_POWER_MODE_OFF
       THEN UNCHANGED <<mEventQueue, mVrrConfigs, minVars>>
       ELSE IF mPendingMinimumRefreshRateRequest # 0 /\
               mPendingMinimumRefreshRateRequest = minimumRefreshRate
       THEN /\ mMaximumRefreshRateTimeoutNs' = minLockTimeForPeakRefreshRate
            /\ UNCHANGED <<mEventQueue, mVrrConfigs, mMinimumRefreshRate,
                           mPendingMinimumRefreshRateRequest,
                           mMinimumRefreshRatePresentState,
                           mMinimumRefreshRateTimeoutEvent,
                           mMinimumRefreshRateTimeoutWhenNs,
                           mPresentTimeoutController,
                           mDefaultPresentTimeoutController, refreshControl>>
       ELSE IF minimumRefreshRate = mMinimumRefreshRate
       THEN /\ mMaximumRefreshRateTimeoutNs' = minLockTimeForPeakRefreshRate
            /\ mPendingMinimumRefreshRateRequest' = 0
            /\ mEventQueue' = dropped
            /\ UNCHANGED <<mVrrConfigs, mMinimumRefreshRate,
                           mMinimumRefreshRatePresentState,
                           mMinimumRefreshRateTimeoutEvent,
                           mMinimumRefreshRateTimeoutWhenNs,
                           mPresentTimeoutController,
                           mDefaultPresentTimeoutController, refreshControl>>
       ELSE IF minimumRefreshRate = 1 \/
               ConfigReady(ConfigAt(mVrrConfigs, mVrrActiveConfig))
       THEN /\ mMinimumRefreshRate' = minimumRefreshRate
            /\ mPendingMinimumRefreshRateRequest' = 0
            /\ mVrrConfigs' = IF minimumRefreshRate = 1 THEN mVrrConfigs
                              ELSE Touch(mVrrConfigs, mVrrActiveConfig)
            /\ mEventQueue' = w.q
            /\ refreshControl' = w.rc
            /\ mPresentTimeoutController' = w.ctl
            /\ mMaximumRefreshRateTimeoutNs' = w.maxTimeout
            /\ mMinimumRefreshRatePresentState' = w.pstate
            /\ mMinimumRefreshRateTimeoutEvent' = w.tev
            /\ mMinimumRefreshRateTimeoutWhenNs' = w.when
            /\ UNCHANGED mDefaultPresentTimeoutController
       ELSE /\ BagCardinality(dropped) < MaxQueue
            /\ mMaximumRefreshRateTimeoutNs' = minLockTimeForPeakRefreshRate
            /\ mPendingMinimumRefreshRateRequest' = minimumRefreshRate
            /\ mVrrConfigs' = Touch(mVrrConfigs, mVrrActiveConfig)
            /\ mEventQueue' =
                   postEvent(dropped, kMinimumRefreshRateWaitForConfigTimeout,
                             now + kWaitForConfigTimeoutNs)
            /\ UNCHANGED <<mMinimumRefreshRate, mMinimumRefreshRatePresentState,
                           mMinimumRefreshRateTimeoutEvent,
                           mMinimumRefreshRateTimeoutWhenNs,
                           mPresentTimeoutController,
                           mDefaultPresentTimeoutController, refreshControl>>
    /\ UNCHANGED <<now, mState, mEnabled, mThreadExit, mPowerMode, workerVars,
                   notified, recVars, opc, mVrrActiveConfig,
                   mValidRefreshRates>>

\* A call that reports NO_ERROR whatever the worker returned
setFixedRefreshRateRangeReturnsNoError(minimumRefreshRateIn, minLockTimeForPeakRefreshRate, ok) == 0

\* What setFixedRefreshRateRange returns to its caller; NO_ERROR is 0
setFixedRefreshRateRangeReturns(minimumRefreshRateIn, minLockTimeForPeakRefreshRate, ok) ==
    LET minimumRefreshRate ==
            IF minimumRefreshRateIn = 0 THEN 1 ELSE minimumRefreshRateIn
        dropped == dropEventLocked(mEventQueue, kMinimumRefreshRateControlEventMask)
        w == setFixedRefreshRateRangeWorker(
                 minimumRefreshRate, refreshControl, mPresentTimeoutController,
                 mDefaultPresentTimeoutController, minLockTimeForPeakRefreshRate,
                 mMinimumRefreshRatePresentState, mMinimumRefreshRateTimeoutEvent,
                 mMinimumRefreshRateTimeoutWhenNs,
                 dropped, ok)
    IN
    IF mPowerMode = HWC_POWER_MODE_OFF THEN 0
    ELSE IF mPendingMinimumRefreshRateRequest # 0 /\
            mPendingMinimumRefreshRateRequest = minimumRefreshRate
    THEN 0
    ELSE IF minimumRefreshRate = mMinimumRefreshRate THEN 0
    ELSE IF minimumRefreshRate = 1 \/
            ConfigReady(ConfigAt(mVrrConfigs, mVrrActiveConfig))
    THEN w.ret
    ELSE 0

\* min(vsyncPeriodNs / 2, 2 ms), in ticks: less than one tick
AheadOfTimeNs(cfg) == 0

\* A vsync period, in ticks: less than one tick
VsyncPeriodTicks(cfg) == 0

ConfigInputs == {0, 1, 2}

setActiveVrrConfiguration(config, ok) ==
    LET touched == Touch(mVrrConfigs, mVrrActiveConfig)
        cfg == ConfigAt(touched, config)
        resolves == mPendingMinimumRefreshRateRequest # 0 /\ ConfigReady(cfg)
        aligns == resolves /\ mLastExpectedPresentTimeNs > now
        sched0 == mLastExpectedPresentTimeNs - AheadOfTimeNs(cfg)
        scheduledTimeNs == IF now > sched0 THEN sched0 + VsyncPeriodTicks(cfg)
                           ELSE sched0
        w == setFixedRefreshRateRangeWorker(
                 mPendingMinimumRefreshRateRequest, refreshControl,
                 mPresentTimeoutController, mDefaultPresentTimeoutController,
                 mMaximumRefreshRateTimeoutNs, mMinimumRefreshRatePresentState,
                 mMinimumRefreshRateTimeoutEvent,
                 mMinimumRefreshRateTimeoutWhenNs, mEventQueue, ok)
        updatesMax ==
            /\ ~resolves
            /\ mMinimumRefreshRatePresentState \in
                   {"kAtMaximumRefreshRate", "kTransitionToMinimumRefreshRate"}
            /\ isMinimumRefreshRateActive(mMinimumRefreshRate)
            /\ mMaximumRefreshRateTimeoutNs > 0
        command == getCurrentRefreshControlStateLocked(refreshControl)
        \* the queue after the minimum-refresh-rate part
        q1 == IF aligns
              THEN postEvent(mEventQueue, kMinimumRefreshRateAlignWithPresent,
                             scheduledTimeNs)
              ELSE IF resolves THEN w.q ELSE mEventQueue
        q2 == dropEventLocked(q1, kSystemRenderingTimeout)
    IN
    /\ Alive
    /\ lastEvent' = NoEvent
    /\ lastCall' = NoCall
    /\ IF CountConfig(mVrrConfigs, config) = 0
       THEN UNCHANGED <<mState, mEventQueue, notified, cfgVars, minVars>>
       ELSE /\ mVrrConfigs' = Touch(touched, config)
            /\ mVrrActiveConfig' = config
            /\ UNCHANGED mValidRefreshRates
            /\ aligns => CanPost
            /\ IF aligns
               THEN /\ mMinimumRefreshRateTimeoutEvent' = "functor"
                    /\ mMinimumRefreshRateTimeoutWhenNs' = 0
                    /\ UNCHANGED <<mMinimumRefreshRate,
                                   mPendingMinimumRefreshRateRequest,
                                   mMaximumRefreshRateTimeoutNs,
                                   mMinimumRefreshRatePresentState,
                                   mPresentTimeoutController, refreshControl>>
               ELSE IF resolves
               THEN /\ mMinimumRefreshRate' = mPendingMinimumRefreshRateRequest
                    /\ mPendingMinimumRefreshRateRequest' = 0
                    /\ refreshControl' = w.rc
                    /\ mPresentTimeoutController' = w.ctl
                    /\ mMaximumRefreshRateTimeoutNs' = w.maxTimeout
                    /\ mMinimumRefreshRatePresentState' = w.pstate
                    /\ mMinimumRefreshRateTimeoutEvent' = w.tev
                    /\ mMinimumRefreshRateTimeoutWhenNs' = w.when
               ELSE /\ refreshControl' =
                          IF updatesMax
                          THEN writeValue(refreshControl,
                                 [command EXCEPT !.minRate =
                                       durationNsToFreq(cfg.minFrameIntervalNs)], ok)
                          ELSE refreshControl
                    /\ UNCHANGED <<mMinimumRefreshRate,
                                   mPendingMinimumRefreshRateRequest,
                                   mMaximumRefreshRateTimeoutNs,
                                   mMinimumRefreshRatePresentState,
                                   mMinimumRefreshRateTimeoutEvent,
                                   mMinimumRefreshRateTimeoutWhenNs,
                                   mPresentTimeoutController>>
            /\ UNCHANGED mDefaultPresentTimeoutController
            /\ IF mState = "kDisable"
               THEN /\ mEventQueue' = q1
                    /\ UNCHANGED <<mState, notified>>
               ELSE /\ mState' = "kRendering"
                    /\ IF cfg.isFullySupported
                       THEN /\ BagCardinality(q2) < MaxQueue
                            /\ mEventQueue' =
                                   postEvent(q2, kSystemRenderingTimeout,
                                             now + cfg.TimeoutNs)
                       ELSE mEventQueue' = q2
                    /\ notified' = notify_all
    /\ UNCHANGED <<now, mEnabled, mThreadExit, mPowerMode, workerVars, recVars,
                   opc>>

\* Expected present times: of the next frame, or of a frame already due
PresentTimeInputs == {now + 1}

MinPresentTimeInputs == {now, now + 1}

setExpectedPresentTime(timestampNanos) ==
    /\ Alive
    /\ opc = "idle"
    /\ lastEvent' = NoEvent
    /\ lastCall' = NoCall
    /\ mLastExpectedPresentTimeNs' = timestampNanos
    /\ mEventQueue' = cancelPresentTimeoutHandlingLocked(
                          dropEventLocked(mEventQueue, kSystemRenderingTimeout))
    /\ mPendingCurrentPresentTime' = timestampNanos
    /\ UNCHANGED <<now, mState, mEnabled, mThreadExit, mPowerMode, workerVars,
                   notified, mNextExpectedPresentTime, opc,
                   cfgVars, minVars>>

\* onPresent(fence), fence >= 0: the first critical section
onPresentBegin(ok) ==
    LET maxFrameRate == durationNsToFreq(
            ConfigAt(mVrrConfigs, mVrrActiveConfig).minFrameIntervalNs)
        locks == /\ mMaximumRefreshRateTimeoutNs > 0
                 /\ mMinimumRefreshRate > 1
                 /\ mPendingMinimumRefreshRateRequest = 0
        command == getCurrentRefreshControlStateLocked(refreshControl)
        q0 == IF mState = "kHibernate"
              THEN dropEventLocked(mEventQueue, kHibernateTimeout)
              ELSE mEventQueue
    IN
    /\ Alive
    /\ opc = "idle"
    /\ lastEvent' = NoEvent
    /\ lastCall' = PresentCall(mState, mPendingCurrentPresentTime # -1)
    /\ IF mPendingCurrentPresentTime = -1 \/ mState = "kDisable"
       THEN UNCHANGED <<mState, mEventQueue, opc, mVrrConfigs, minVars>>
       ELSE /\ mState' = "kRendering"
            /\ IF ~locks
               THEN /\ opc' = "mid"
                    /\ mEventQueue' = q0
                    /\ UNCHANGED <<mVrrConfigs, minVars>>
               ELSE /\ mVrrConfigs' = Touch(mVrrConfigs, mVrrActiveConfig)
                    /\ UNCHANGED <<opc, mMinimumRefreshRate,
                                   mPendingMinimumRefreshRateRequest,
                                   mMaximumRefreshRateTimeoutNs,
                                   mPresentTimeoutController,
                                   mDefaultPresentTimeoutController>>
                    /\ IF maxFrameRate = mMinimumRefreshRate
                       THEN /\ mEventQueue' = q0
                            /\ UNCHANGED <<mMinimumRefreshRatePresentState,
                                           mMinimumRefreshRateTimeoutEvent,
                                           mMinimumRefreshRateTimeoutWhenNs,
                                           refreshControl>>
                       ELSE IF mMinimumRefreshRatePresentState =
                                   "kAtMinimumRefreshRate"
                       THEN /\ refreshControl' =
                                   writeValue(refreshControl,
                                       [command EXCEPT !.auto = TRUE,
                                                       !.minRate = maxFrameRate], ok)
                            /\ IF ok
                               THEN /\ BagCardinality(q0) < MaxQueue
                                    /\ mMinimumRefreshRatePresentState' =
                                           "kAtMaximumRefreshRate"
                                    /\ mEventQueue' = postTimedEvent(q0,
                                           kMinLockTimeForPeakRefreshRate,
                                           mPendingCurrentPresentTime +
                                               mMaximumRefreshRateTimeoutNs,
                                           mMinimumRefreshRateTimeoutEvent)
                                    /\ mMinimumRefreshRateTimeoutEvent' \in
                                           MovedFrom(mMinimumRefreshRateTimeoutEvent)
                                    /\ mMinimumRefreshRateTimeoutWhenNs' =
                                           mPendingCurrentPresentTime +
                                               mMaximumRefreshRateTimeoutNs
                               ELSE /\ mEventQueue' = q0
                                    /\ UNCHANGED <<mMinimumRefreshRatePresentState,
                                                   mMinimumRefreshRateTimeoutEvent,
                                                   mMinimumRefreshRateTimeoutWhenNs>>
                       ELSE IF mMinimumRefreshRatePresentState =
                                   "kTransitionToMinimumRefreshRate"
                       THEN LET q1 == dropEventLocked(q0,
                                          kMinLockTimeForPeakRefreshRate)
                            IN  /\ BagCardinality(q1) < MaxQueue
                                /\ mEventQueue' = postTimedEvent(q1,
                                       kMinLockTimeForPeakRefreshRate,
                                       mPendingCurrentPresentTime +
                                           SettleDelayNs(mMinimumRefreshRate),
                                       mMinimumRefreshRateTimeoutEvent)
                                /\ mMinimumRefreshRateTimeoutEvent' \in
                                       MovedFrom(mMinimumRefreshRateTimeoutEvent)
                                /\ mMinimumRefreshRateTimeoutWhenNs' =
                                       mPendingCurrentPresentTime +
                                           SettleDelayNs(mMinimumRefreshRate)
                                /\ UNCHANGED <<mMinimumRefreshRatePresentState,
                                               refreshControl>>
                       ELSE /\ mEventQueue' = q0
                            /\ UNCHANGED <<mMinimumRefreshRatePresentState,
                                           mMinimumRefreshRateTimeoutEvent,
                                           mMinimumRefreshRateTimeoutWhenNs,
                                           refreshControl>>
    /\ UNCHANGED <<now, mEnabled, mThreadExit, mPowerMode, workerVars, notified,
                   recVars, mVrrActiveConfig, mValidRefreshRates>>

\* No present timeout override is set
shouldHandleVendorRenderingTimeout ==
    /\ mPresentTimeoutController = "kSoftware"
    /\ mPowerMode = HWC_POWER_MODE_NORMAL

\* onPresent(fence): updateVsyncHistory, dup(fence) and the second critical
\* section.  firstTimeOutNs is the present timeout of the vendor's handler
\* less kDefaultAheadOfTimeNs.
onPresentEndTimeout(firstTimeOutNs) ==
    LET cfg == ConfigAt(mVrrConfigs, mVrrActiveConfig)
        timeoutNs == IF cfg.isFullySupported THEN now + cfg.TimeoutNs
                     ELSE kDefaultSystemPresentTimeoutNs
        posted == postEvent(mEventQueue, kSystemRenderingTimeout,
                            now + timeoutNs)
    IN
    /\ opc = "mid"
    /\ CanPost
    /\ opc' = "idle"
    /\ lastEvent' = NoEvent
    /\ lastCall' = NoCall
    /\ mVrrConfigs' = Touch(mVrrConfigs, mVrrActiveConfig)
    /\ IF shouldHandleVendorRenderingTimeout /\ firstTimeOutNs >= 0
       THEN /\ BagCardinality(posted) < MaxQueue
            /\ mEventQueue' = postEvent(posted, kVendorRenderingTimeoutInit,
                                        mPendingCurrentPresentTime +
                                            firstTimeOutNs)
       ELSE mEventQueue' = posted
    /\ mPendingCurrentPresentTime' = -1
    /\ notified' = notify_all
    /\ UNCHANGED <<now, mState, mEnabled, mThreadExit, mPowerMode, workerVars,
                   mNextExpectedPresentTime, mLastExpectedPresentTimeNs,
                   mVrrActiveConfig, mValidRefreshRates, minVars>>

\* The present of a display whose vendor handler has a present timeout
\* under kDefaultAheadOfTimeNs: no vendor rendering timeout is posted
onPresentEnd == onPresentEndTimeout(-1)

-----------------------------------------------------------------------------
(* Worker thread: threadBody *)

\* The members one dispatch may change, with q the queue after the pop.
Locals(q) ==
    [state |-> mState, q |-> q, exit |-> FALSE,
     nept |-> mNextExpectedPresentTime, configs |-> mVrrConfigs,
     minRate |-> mMinimumRefreshRate,
     pending |-> mPendingMinimumRefreshRateRequest,
     pstate |-> mMinimumRefreshRatePresentState,
     tev |-> mMinimumRefreshRateTimeoutEvent,
     tevWhen |-> mMinimumRefreshRateTimeoutWhenNs,
     ctl |-> mPresentTimeoutController, rc |-> refreshControl]

handleCadenceChange(s) == [s EXCEPT !.nept = FALSE]

handleResume(s) == [s EXCEPT !.nept = FALSE]

\* A hibernate entry that schedules its wake-up one period late
handleHibernateLate(s) ==
    [s EXCEPT !.q = postEvent(s.q, kHibernateTimeout,
                              now + 2 * kDefaultWakeUpTimeInPowerSaving)]

handleHibernate(s) ==
    [s EXCEPT !.q = postEvent(s.q, kHibernateTimeout,
                              now + kDefaultWakeUpTimeInPowerSaving)]

handleStayHibernate(s) ==
    [s EXCEPT !.q = postEvent(s.q, kHibernateTimeout,
                              now + kDefaultWakeUpTimeInPowerSaving)]

\* A functor that drops from the maximum to the minimum in one step
MinimumRefreshRateTimeoutFunctorDirect(s, ok, movedTev) ==
    LET command == getCurrentRefreshControlStateLocked(s.rc) IN
    IF s.pstate \notin {"kAtMaximumRefreshRate", "kTransitionToMinimumRefreshRate"}
    THEN s
    ELSE [s EXCEPT !.pstate = "kAtMinimumRefreshRate",
                   !.rc = writeValue(s.rc,
                              [command EXCEPT !.auto = TRUE,
                                              !.minRate = s.minRate], ok)]

\* The functor createMinimumRefreshRateTimeoutEventLocked installs.
MinimumRefreshRateTimeoutFunctor(s, ok, movedTev) ==
    LET command == getCurrentRefreshControlStateLocked(s.rc) IN
    IF s.pstate = "kAtMaximumRefreshRate"
    THEN [s EXCEPT !.pstate = "kTransitionToMinimumRefreshRate",
                   !.q = postTimedEvent(s.q, kMinLockTimeForPeakRefreshRate,
                                        now + SettleDelayNs(s.minRate), s.tev),
                   !.tev = movedTev,
                   !.tevWhen = now + SettleDelayNs(s.minRate)]
    ELSE IF s.pstate # "kTransitionToMinimumRefreshRate"
    THEN s
    ELSE [s EXCEPT !.pstate = "kAtMinimumRefreshRate",
                   !.rc = writeValue(s.rc,
                              [command EXCEPT !.auto = TRUE,
                                              !.minRate = s.minRate], ok)]

handleCallbackEventLocked(s, event, ok, movedTev) ==
    IF event.mFunctor THEN MinimumRefreshRateTimeoutFunctor(s, ok, movedTev)
    ELSE s

\* threadBody, event kMinimumRefreshRateAlignWithPresent
AlignWithPresent(s, ok, movedTev) ==
    LET maxFrameRate == durationNsToFreq(
            ConfigAt(s.configs, mVrrActiveConfig).minFrameIntervalNs)
        command == getCurrentRefreshControlStateLocked(s.rc)
        s1 == [s EXCEPT !.minRate = s.pending, !.pending = 0,
                        !.configs = Touch(s.configs, mVrrActiveConfig)]
    IN
    IF s.pending = 0 THEN s
    ELSE IF ~ok THEN [s1 EXCEPT !.exit = TRUE]
    ELSE [s1 EXCEPT !.rc = writeValue(s.rc,
                               [command EXCEPT !.auto = TRUE,
                                               !.minRate = maxFrameRate], TRUE),
                    !.pstate = "kAtMaximumRefreshRate",
                    !.q = postTimedEvent(s.q, kMinLockTimeForPeakRefreshRate,
                                         now + mMaximumRefreshRateTimeoutNs,
                                         s.tev),
                    !.tev = movedTev,
                    !.tevWhen = now + mMaximumRefreshRateTimeoutNs]

\* threadBody, the switch taken while mState is kRendering
DispatchRendering(s, event) ==
    IF event.mEventType = kSystemRenderingTimeout
    THEN [handleHibernate(s) EXCEPT !.state = "kHibernate"]
    ELSE IF event.mEventType = kNotifyExpectedPresentConfig
    THEN handleCadenceChange(s)
    ELSE s

\* threadBody, the switch taken otherwise
DispatchOther(s, event) ==
    IF event.mEventType = kHibernateTimeout
    THEN handleStayHibernate(s)
    ELSE IF event.mEventType = kNotifyExpectedPresentConfig
    THEN [handleResume(s) EXCEPT !.state = "kRendering"]
    ELSE s

\* A dispatch that applies the pending request when its timeout is handled
DispatchedAppliesOnTimeout(event, q, ok, movedTev) ==
    LET s == Locals(q) IN
    IF kCallbackEventMask \subseteq event.mEventType
    THEN handleCallbackEventLocked(s, event, ok, movedTev)
    ELSE IF event.mEventType = kMinimumRefreshRateAlignWithPresent
    THEN AlignWithPresent(s, ok, movedTev)
    ELSE IF event.mEventType = kMinimumRefreshRateWaitForConfigTimeout
    THEN [s EXCEPT !.minRate = s.pending, !.pending = 0]
    ELSE IF mState = "kRendering"
    THEN DispatchRendering(s, event)
    ELSE DispatchOther(s, event)

\* threadBody from the pop to the end of the iteration
Dispatched(event, q, ok, movedTev) ==
    LET s == Locals(q) IN
    IF kCallbackEventMask \subseteq event.mEventType
    THEN handleCallbackEventLocked(s, event, ok, movedTev)
    ELSE IF event.mEventType = kMinimumRefreshRateAlignWithPresent
    THEN AlignWithPresent(s, ok, movedTev)
    ELSE IF event.mEventType = kMinimumRefreshRateWaitForConfigTimeout
    THEN [s EXCEPT !.pending = 0]
    ELSE IF mState = "kRendering"
    THEN DispatchRendering(s, event)
    ELSE DispatchOther(s, event)

WorkerKeeps ==
    UNCHANGED <<now, mEnabled, mThreadExit, mPowerMode,
                mPendingCurrentPresentTime, mLastExpectedPresentTimeNs,
                opc, mVrrActiveConfig, mValidRefreshRates,
                mMaximumRefreshRateTimeoutNs, mDefaultPresentTimeoutController>>

\* A step of the worker that handles no event
NoDispatch ==
    /\ lastEvent' = NoEvent
    /\ lastCall' = NoCall
    /\ UNCHANGED <<mState, mEventQueue, mNextExpectedPresentTime, mVrrConfigs,
                   mMinimumRefreshRate, mPendingMinimumRefreshRateRequest,
                   mMinimumRefreshRatePresentState,
                   mMinimumRefreshRateTimeoutEvent,
                   mMinimumRefreshRateTimeoutWhenNs, mPresentTimeoutController,
                   refreshControl>>

\* continue: the lock is released and the loop starts over
Continue ==
    /\ wpc' = "top"
    /\ wakeAt' = 0
    /\ notified' = FALSE
    /\ NoDispatch

WaitAt(pc, until) ==
    /\ wpc' = pc
    /\ wakeAt' = until
    /\ notified' = FALSE
    /\ NoDispatch

\* threadBody from the second emptiness test to the end of the iteration
PopAndDispatch(ok) ==
    IF QueueEmpty(mEventQueue) THEN Continue
    ELSE \E event \in TopEvents(mEventQueue),
            movedTev \in MovedFrom(mMinimumRefreshRateTimeoutEvent) :
           IF event.mWhenNs > now THEN Continue
           ELSE LET r == Dispatched(event, PopEvent(mEventQueue, event), ok,
                                    movedTev)
                IN  /\ lastEvent' = event
                    /\ lastCall' = NoCall
                    /\ wpc' = IF r.exit THEN "exited" ELSE "top"
                    /\ wakeAt' = 0
                    /\ notified' = FALSE
                    /\ mState' = r.state
                    /\ mEventQueue' = r.q
                    /\ mNextExpectedPresentTime' = r.nept
                    /\ mVrrConfigs' = r.configs
                    /\ mMinimumRefreshRate' = r.minRate
                    /\ mPendingMinimumRefreshRateRequest' = r.pending
                    /\ mMinimumRefreshRatePresentState' = r.pstate
                    /\ mMinimumRefreshRateTimeoutEvent' = r.tev
                    /\ mMinimumRefreshRateTimeoutWhenNs' = r.tevWhen
                    /\ mPresentTimeoutController' = r.ctl
                    /\ refreshControl' = r.rc

\* threadBody from getNextEventTimeLocked on
WaitOrDispatch(ok) ==
    LET whenNs == getNextEventTimeLocked(mEventQueue) IN
    IF whenNs > now THEN WaitAt("waitTimed", whenNs)
    ELSE PopAndDispatch(ok)

\* threadBody from the first emptiness test on
FromQueueCheck(ok) ==
    IF QueueEmpty(mEventQueue) THEN WaitAt("waitEmpty", 0)
    ELSE WaitOrDispatch(ok)

\* thread entry: sched_setscheduler
WorkerStart(schedOk) ==
    /\ wpc = "start"
    /\ wpc' = IF schedOk THEN "top" ELSE "exited"
    /\ UNCHANGED <<wakeAt, notified>>
    /\ NoDispatch
    /\ WorkerKeeps

\* an iteration that starts with the lock taken
WorkerTop(ok) ==
    /\ wpc = "top"
    /\ IF mThreadExit
       THEN /\ wpc' = "exited"
            /\ UNCHANGED <<wakeAt, notified>>
            /\ NoDispatch
       ELSE IF ~mEnabled THEN WaitAt("waitEnabled", 0)
       ELSE FromQueueCheck(ok)
    /\ WorkerKeeps

\* return of mCondition.wait(lock) at the mEnabled test
WorkerWakeEnabled(spurious, ok) ==
    /\ wpc = "waitEnabled"
    /\ notified \/ spurious
    /\ IF ~mEnabled THEN Continue ELSE FromQueueCheck(ok)
    /\ WorkerKeeps

\* return of mCondition.wait(lock) at the emptiness test
WorkerWakeEmpty(spurious, ok) ==
    /\ wpc = "waitEmpty"
    /\ notified \/ spurious
    /\ WaitOrDispatch(ok)
    /\ WorkerKeeps

\* return of wait_for without timeout
WorkerWakeTimed(spurious) ==
    /\ wpc = "waitTimed"
    /\ notified \/ spurious
    /\ Continue
    /\ WorkerKeeps

\* return of wait_for with cv_status::timeout
WorkerTimeout(ok) ==
    /\ wpc = "waitTimed"
    /\ now >= wakeAt
    /\ PopAndDispatch(ok)
    /\ WorkerKeeps

-----------------------------------------------------------------------------
PowerModeInputs == PowerModes

ControllerTypeInputs == {"kHardware", "kSoftware"}

\* ~VariableRefreshRateController is the caller of stopThread
ExitInputs == {TRUE}

MinPowerModeInputs == {HWC_POWER_MODE_NORMAL, HWC_POWER_MODE_DOZE}

\* The thread is started by CreateInstance: callers reach the controller
\* after the thread has entered threadBody.
Started == wpc # "start"

\* A step of the worker, a call outside the request budget, and a request
\* counted by it
Free(op) == op /\ UNCHANGED <<requests, statVars, pureVars, powerVars, ioVars>>

Call(op) == Started /\ op /\ UNCHANGED <<requests, statVars, pureVars, powerVars, ioVars>>

\* A call made while the display is brought up, before the first request
BringUp(op) == requests = 0 /\ Call(op)

Request(op) ==
    /\ Started
    /\ requests < MaxRequests
    /\ requests' = requests + 1
    /\ op
    /\ UNCHANGED <<statVars, pureVars, powerVars, ioVars>>

\* The controller driven through its life cycle: power modes, enabling,
\* configurations, expected presents and presents.  No minimum refresh rate
\* is requested, so no step writes the refresh-control node and the outcome
\* of a write is not an input.
Next ==
    \/ Call(Tick)
    \/ Call(notifyExpectedPresent)
    \/ \E isEnabled \in BOOLEAN : Call(setEnable(isEnabled))
    \/ \E exit \in ExitInputs : Call(stopThread(exit))
    \/ Call(setVrrConfigurations(ConfigTable))
    \/ \E powerMode \in PowerModeInputs : Call(postSetPowerMode(powerMode))
    \/ \E config \in ConfigInputs : Call(setActiveVrrConfiguration(config, TRUE))
    \/ \E timestampNanos \in PresentTimeInputs :
           Call(setExpectedPresentTime(timestampNanos))
    \/ Call(onPresentBegin(TRUE))
    \/ Call(onPresentEnd)
    \/ \E schedOk \in BOOLEAN : Free(WorkerStart(schedOk))
    \/ Free(WorkerTop(TRUE))
    \/ \E spurious \in BOOLEAN : Free(WorkerWakeEnabled(spurious, TRUE))
    \/ \E spurious \in BOOLEAN : Free(WorkerWakeEmpty(spurious, TRUE))
    \/ \E spurious \in BOOLEAN : Free(WorkerWakeTimed(spurious))
    \/ Free(WorkerTimeout(TRUE))

Spec == Init /\ [][Next]_vars

\* The controller of a display that is brought up and then receives a bounded
\* number of requests, among them minimum-refresh-rate requests.
NextMin ==
    \/ Call(Tick)
    \/ BringUp(setEnable(TRUE))
    \/ BringUp(setVrrConfigurations(ConfigTable))
    \/ \E powerMode \in MinPowerModeInputs : BringUp(postSetPowerMode(powerMode))
    \/ \E powerMode \in MinPowerModeInputs, ok \in BOOLEAN :
           Request(preSetPowerMode(powerMode, ok))
    \/ \E controllerType \in ControllerTypeInputs, ok \in BOOLEAN :
           Request(setPresentTimeoutController(controllerType, ok))
    \/ \E rate \in RateInputs, lock \in LockInputs, ok \in BOOLEAN :
           Request(setFixedRefreshRateRange(rate, lock, ok))
    \/ \E config \in ConfigInputs, ok \in BOOLEAN :
           Request(setActiveVrrConfiguration(config, ok))
    \/ \E timestampNanos \in MinPresentTimeInputs :
           Request(setExpectedPresentTime(timestampNanos))
    \/ \E ok \in BOOLEAN : Request(onPresentBegin(ok))
    \/ Call(onPresentEnd)
    \/ \E schedOk \in BOOLEAN : Free(WorkerStart(schedOk))
    \/ \E ok \in BOOLEAN : Free(WorkerTop(ok))
    \/ \E spurious \in BOOLEAN, ok \in BOOLEAN :
           Free(WorkerWakeEnabled(spurious, ok))
    \/ \E spurious \in BOOLEAN, ok \in BOOLEAN :
           Free(WorkerWakeEmpty(spurious, ok))
    \/ \E spurious \in BOOLEAN : Free(WorkerWakeTimed(spurious))
    \/ \E ok \in BOOLEAN : Free(WorkerTimeout(ok))

SpecMin == Init /\ [][NextMin]_vars
\* The floors asked for while the lock is exercised.
LockRateInputs == {0, 30, 60}

\* The display is up once it is powered on.
BroughtUp == mPowerMode = HWC_POWER_MODE_NORMAL

\* The calls that bring the display up, made once each and in this order
LockBringUp(op) == ~BroughtUp /\ Call(op)

LockRequest(op) ==
    /\ BroughtUp
    /\ requests < MaxLockRequests
    /\ requests' = requests + 1
    /\ op
    /\ UNCHANGED <<statVars, pureVars, powerVars, ioVars>>

\* The controller of a display that is brought up on the fully supported
\* configuration and then receives minimum-refresh-rate requests and
\* presents.
NextLock ==
    \/ BroughtUp /\ Call(Tick)
    \/ ~mEnabled /\ LockBringUp(setEnable(TRUE))
    \/ mEnabled /\ mVrrConfigs = <<>> /\
           LockBringUp(setVrrConfigurations(ConfigTable))
    \/ mVrrConfigs # <<>> /\ mVrrActiveConfig = -1 /\
           LockBringUp(setActiveVrrConfiguration(0, TRUE))
    \/ mVrrActiveConfig = 0 /\
           LockBringUp(postSetPowerMode(HWC_POWER_MODE_NORMAL))
    \/ \E rate \in LockRateInputs, lock \in LockInputs, ok \in BOOLEAN :
           LockRequest(setFixedRefreshRateRange(rate, lock, ok))
    \/ \E timestampNanos \in MinPresentTimeInputs :
           LockRequest(setExpectedPresentTime(timestampNanos))
    \/ \E ok \in BOOLEAN : LockRequest(onPresentBegin(ok))
    \/ Call(onPresentEnd)
    \/ \E schedOk \in BOOLEAN : Free(WorkerStart(schedOk))
    \/ \E ok \in BOOLEAN : Free(WorkerTop(ok))
    \/ \E spurious \in BOOLEAN, ok \in BOOLEAN :
           Free(WorkerWakeEnabled(spurious, ok))
    \/ \E spurious \in BOOLEAN, ok \in BOOLEAN :
           Free(WorkerWakeEmpty(spurious, ok))
    \/ \E spurious \in BOOLEAN : Free(WorkerWakeTimed(spurious))
    \/ \E ok \in BOOLEAN : Free(WorkerTimeout(ok))

SpecLock == Init /\ [][NextLock]_vars

\* The floors asked for while a request waits for its configuration.
WaitRateInputs == {0, 30, 60}

WaitConfigInputs == {0, 1}

\* A request whose wait-for-config timeout falls inside the modelled time
InTime == now + kWaitForConfigTimeoutNs <= MaxTime

\* A step of the worker thread.  A wait on the condition variable returns
\* when it is notified or when its time is up.
WorkerStep ==
    \/ \E ok \in BOOLEAN : Free(WorkerTop(ok))
    \/ \E ok \in BOOLEAN : Free(WorkerWakeEnabled(FALSE, ok))
    \/ \E ok \in BOOLEAN : Free(WorkerWakeEmpty(FALSE, ok))
    \/ Free(WorkerWakeTimed(FALSE))
    \/ \E ok \in BOOLEAN : Free(WorkerTimeout(ok))

\* The controller of a display that is brought up on the configuration
\* driven at a 240 Hz TE, where a floor has to wait for a configuration
\* change, and then receives floors with a lock of one tick, configuration
\* changes, presents and setEnable calls.  Its worker thread has entered the loop of threadBody.
NextWait ==
    \/ BroughtUp /\ Call(Tick)
    \/ ~mEnabled /\ LockBringUp(setEnable(TRUE))
    \/ mEnabled /\ mVrrConfigs = <<>> /\
           LockBringUp(setVrrConfigurations(ConfigTable))
    \/ mVrrConfigs # <<>> /\ mVrrActiveConfig = -1 /\
           LockBringUp(setActiveVrrConfiguration(1, TRUE))
    \/ mVrrActiveConfig = 1 /\
           LockBringUp(postSetPowerMode(HWC_POWER_MODE_NORMAL))
    \/ \E rate \in WaitRateInputs, ok \in BOOLEAN :
           InTime /\ LockRequest(setFixedRefreshRateRange(rate, 1, ok))
    \/ \E config \in WaitConfigInputs, ok \in BOOLEAN :
           LockRequest(setActiveVrrConfiguration(config, ok))
    \/ \E timestampNanos \in PresentTimeInputs :
           LockRequest(setExpectedPresentTime(timestampNanos))
    \/ \E isEnabled \in BOOLEAN : LockRequest(setEnable(isEnabled))
    \/ \E ok \in BOOLEAN : LockRequest(onPresentBegin(ok))
    \/ Call(onPresentEnd)
    \/ Free(WorkerStart(TRUE))
    \/ WorkerStep

\* The worker thread runs at SCHED_FIFO priority and time passes: a step of
\* the thread that stays possible is taken.
SpecWait ==
    /\ Init /\ [][NextWait]_vars
    /\ WF_vars(WorkerStep)
    /\ WF_vars(Call(Tick))
-----------------------------------------------------------------------------
(* The calls of the statistic.  Each is written as the function it applies *)
(* to the object s when the boot clock shows t, in the pieces that the     *)
(* statistics mutex separates.                                             *)

isPowerModeOffNowLocked(s) == isPowerModeOff(s.mDisplayRefreshProfile.mPowerMode)

getPowerOffDurationNs(s, t) ==
    IF isPowerModeOffNowLocked(s)
    THEN ToUint64(s.mPowerOffDurationNs +
                  ToUint64(t - RecordAt(s.mStatistics, s.mDisplayRefreshProfile)
                                   .mLastTimeStampInBootClockNs))
    ELSE s.mPowerOffDurationNs

\* The display context reports the normal or no brightness mode here; the
\* second is replaced by the first.
updateCurrentDisplayStatus(s) ==
    [s EXCEPT !.mDisplayRefreshProfile.mBrightnessMode = "kNormalBrightnessMode"]

\* updateIdleStats up to its critical section: the fields it reads and writes
\* without the mutex, the locals it keeps, and the critical section it enters.
updateIdleStatsUnlocked(s, t, endTimeStampInBootClockNs) ==
    LET profile == s.mDisplayRefreshProfile
        endNs == IF endTimeStampInBootClockNs < 0 THEN t
                 ELSE endTimeStampInBootClockNs
        elapsed == endNs - s.mLastRefreshTimeInBootClockNs
        durationFromLastPresentNs == IF elapsed < 0 THEN 0 ELSE elapsed
        numVsync == roundDivide(durationFromLastPresentNs, mTeIntervalNs)
        idleVsync == IF s.mMinimumRefreshRate > 1
                     THEN mTeFrequency \div s.mMinimumRefreshRate
                     ELSE mTeFrequency
        count == (numVsync - 1) \div idleVsync
        idle == [s EXCEPT !.mDisplayRefreshProfile.mRefreshSource =
                              kRefreshSourceIdlePresent,
                          !.mDisplayRefreshProfile.mNumVsync = idleVsync]
    IN
    IF isOff(profile) THEN [s |-> s, loc |-> NoLocals]
    ELSE IF s.mLastRefreshTimeInBootClockNs = kDefaultInvalidPresentTimeNs
    THEN [s |-> s, loc |-> NoLocals]
    ELSE IF profile.mPowerMode = HWC_POWER_MODE_DOZE
    THEN [s |-> [s EXCEPT !.mDisplayRefreshProfile.mNumVsync = mTeFrequency],
          loc |-> [kind |-> "doze",
                   durationFromLastPresentNs |-> durationFromLastPresentNs,
                   endTimeStampInBootClockNs |-> endNs,
                   count |-> 0, alignedDurationNs |-> 0]]
    ELSE IF s.mMinimumRefreshRate > 1 /\ ~isPresentRefresh(profile.mRefreshSource)
    THEN [s |-> s, loc |-> NoLocals]
    ELSE IF numVsync <= idleVsync THEN [s |-> idle, loc |-> NoLocals]
    ELSE [s |-> idle,
          loc |-> [kind |-> "normal",
                   durationFromLastPresentNs |-> durationFromLastPresentNs,
                   endTimeStampInBootClockNs |-> endNs,
                   count |-> count,
                   alignedDurationNs |-> s.mMaximumFrameIntervalNs * count]]

\* The critical section of updateIdleStats, entered with the locals loc
updateIdleStatsLocked(s, loc) ==
    LET profile == s.mDisplayRefreshProfile
        record == RecordAt(s.mStatistics, profile)
        advanced == s.mLastRefreshTimeInBootClockNs + loc.alignedDurationNs
    IN
    IF loc.kind = "doze"
    THEN [s EXCEPT
            !.mStatistics = Assign(@, profile,
                [record EXCEPT
                    !.mAccumulatedTimeNs = @ + loc.durationFromLastPresentNs,
                    !.mLastTimeStampInBootClockNs =
                        ToUint64(s.mLastRefreshTimeInBootClockNs),
                    !.mUpdated = TRUE]),
            !.mLastRefreshTimeInBootClockNs = loc.endTimeStampInBootClockNs]
    ELSE [s EXCEPT
            !.mStatistics = Assign(@, profile,
                [record EXCEPT
                    !.mCount = @ + loc.count,
                    !.mAccumulatedTimeNs = @ + loc.alignedDurationNs,
                    !.mLastTimeStampInBootClockNs = ToUint64(advanced),
                    !.mUpdated = TRUE]),
            !.mLastRefreshTimeInBootClockNs = advanced]

updateIdleStats(s, t, endTimeStampInBootClockNs) ==
    LET u == updateIdleStatsUnlocked(s, t, endTimeStampInBootClockNs) IN
    IF u.loc.kind = "none" THEN u.s ELSE updateIdleStatsLocked(u.s, u.loc)

\* A first refresh that leaves the baseline
onRefreshInternalFirstKeeps(s, presentTimeInBootClockNs) == updateCurrentDisplayStatus(s)

\* onRefreshInternal, the first refresh after a resume: it sets the baseline
onRefreshInternalFirst(s, presentTimeInBootClockNs) ==
    updateCurrentDisplayStatus(
        [s EXCEPT !.mLastRefreshTimeInBootClockNs = presentTimeInBootClockNs])

\* A refresh that counts the whole TE intervals since the baseline
onRefreshInternalUnlockedTruncates(s, presentTimeNs, presentingWhenDoze, refreshSource) ==
    LET s1 == updateCurrentDisplayStatus(s)
        numVsync == Max(0, presentTimeNs - s1.mLastRefreshTimeInBootClockNs)
                        \div mTeIntervalNs
    IN
    IF presentingWhenDoze
    THEN [s |-> [s1 EXCEPT
                   !.mDisplayRefreshProfile.mNumVsync =
                       mTeFrequency \div kFrameRateWhenPresentAtLpMode,
                   !.mLastRefreshTimeInBootClockNs =
                       presentTimeNs +
                       (BootClockHz \div kFrameRateWhenPresentAtLpMode)],
          locked |-> TRUE]
    ELSE IF numVsync = 0 THEN [s |-> s1, locked |-> FALSE]
    ELSE [s |-> [s1 EXCEPT
                   !.mDisplayRefreshProfile.mNumVsync =
                       Max(1, Min(mTeFrequency, numVsync)),
                   !.mLastRefreshTimeInBootClockNs = presentTimeNs,
                   !.mDisplayRefreshProfile.mRefreshSource = refreshSource],
          locked |-> TRUE]

\* onRefreshInternal between updateIdleStats and its critical section
onRefreshInternalUnlocked(s, presentTimeNs, presentingWhenDoze, refreshSource) ==
    LET s1 == updateCurrentDisplayStatus(s)
        numVsync == roundDivide(presentTimeNs - s1.mLastRefreshTimeInBootClockNs,
                                mTeIntervalNs)
    IN
    IF presentingWhenDoze
    THEN [s |-> [s1 EXCEPT
                   !.mDisplayRefreshProfile.mNumVsync =
                       mTeFrequency \div kFrameRateWhenPresentAtLpMode,
                   !.mLastRefreshTimeInBootClockNs =
                       presentTimeNs +
                       (BootClockHz \div kFrameRateWhenPresentAtLpMode)],
          locked |-> TRUE]
    ELSE IF numVsync = 0 THEN [s |-> s1, locked |-> FALSE]
    ELSE [s |-> [s1 EXCEPT
                   !.mDisplayRefreshProfile.mNumVsync =
                       Max(1, Min(mTeFrequency, numVsync)),
                   !.mLastRefreshTimeInBootClockNs = presentTimeNs,
                   !.mDisplayRefreshProfile.mRefreshSource = refreshSource],
          locked |-> TRUE]

\* The critical section of onRefreshInternal
onRefreshInternalLocked(s, presentTimeInBootClockNs, presentingWhenDoze) ==
    LET profile == s.mDisplayRefreshProfile
        record == RecordAt(s.mStatistics, profile)
        recorded == Assign(s.mStatistics, profile,
            [record EXCEPT
                !.mCount = @ + 1,
                !.mAccumulatedTimeNs = @ + mTeIntervalNs * profile.mNumVsync,
                !.mLastTimeStampInBootClockNs =
                    ToUint64(presentTimeInBootClockNs),
                !.mUpdated = TRUE])
        reverted == [profile EXCEPT !.mNumVsync = mTeFrequency]
        after == RecordAt(recorded, reverted)
    IN
    IF presentingWhenDoze
    THEN [s EXCEPT
            !.mDisplayRefreshProfile = reverted,
            !.mStatistics = Assign(recorded, reverted,
                [after EXCEPT
                    !.mCount = @ + 1,
                    !.mLastTimeStampInBootClockNs =
                        ToUint64(s.mLastRefreshTimeInBootClockNs),
                    !.mUpdated = TRUE])]
    ELSE [s EXCEPT !.mStatistics = recorded]

\* onPresent and onNonPresentRefresh pass the time of the refresh, which the
\* code converts to the boot clock; here it is given in the boot clock.
onRefreshInternal(s, t, presentTimeNs, presentingWhenDoze, refreshSource) ==
    IF s.mLastRefreshTimeInBootClockNs = kDefaultInvalidPresentTimeNs
    THEN onRefreshInternalFirst(s, presentTimeNs)
    ELSE LET r == onRefreshInternalUnlocked(
                      updateIdleStats(s, t, presentTimeNs),
                      presentTimeNs, presentingWhenDoze, refreshSource)
         IN IF r.locked
            THEN onRefreshInternalLocked(r.s, presentTimeNs, presentingWhenDoze)
            ELSE r.s

\* The critical section of onPowerStateChange
onPowerStateChangeLocked(s, t, from, to) ==
    LET profile == s.mDisplayRefreshProfile
        off == [profile EXCEPT !.mPowerMode = HWC_POWER_MODE_OFF]
        offRecord == RecordAt(s.mStatistics, off)
        touched == Assign(s.mStatistics, profile,
                          RecordAt(s.mStatistics, profile))
        resumed == IF isPowerModeOff(from)
                   THEN [s EXCEPT
                           !.mStatistics = touched,
                           !.mPowerOffDurationNs = ToUint64(@ +
                               ToUint64(t - RecordAt(s.mStatistics, profile)
                                                .mLastTimeStampInBootClockNs))]
                   ELSE s
        doze == [profile EXCEPT !.mPowerMode = to, !.mNumVsync = mTeFrequency]
        dozeRecord == RecordAt(resumed.mStatistics, doze)
    IN
    IF isPowerModeOff(to)
    THEN [s EXCEPT
            !.mDisplayRefreshProfile = off,
            !.mStatistics = Assign(@, off,
                [offRecord EXCEPT !.mCount = @ + 1,
                                  !.mLastTimeStampInBootClockNs = t,
                                  !.mUpdated = TRUE]),
            !.mLastRefreshTimeInBootClockNs = kDefaultInvalidPresentTimeNs]
    ELSE IF to = HWC_POWER_MODE_DOZE
    THEN [resumed EXCEPT
            !.mDisplayRefreshProfile = doze,
            !.mStatistics = Assign(@, doze,
                [dozeRecord EXCEPT !.mCount = @ + 1,
                                   !.mLastTimeStampInBootClockNs = t,
                                   !.mUpdated = TRUE])]
    ELSE [resumed EXCEPT !.mDisplayRefreshProfile.mPowerMode = to]

onPowerStateChange(s, t, from, to) ==
    IF from = to THEN s
    ELSE onPowerStateChangeLocked(updateIdleStats(s, t, -1), t, from, to)

\* setFixedRefreshRate after updateIdleStats
setFixedRefreshRateWrite(s, rate) ==
    [s EXCEPT !.mMinimumRefreshRate = rate,
              !.mMaximumFrameIntervalNs =
                  IF rate > 1 THEN roundDivide(BootClockHz, rate)
                  ELSE kMaxRefreshIntervalNs]

setFixedRefreshRate(s, t, rate) ==
    IF s.mMinimumRefreshRate # rate
    THEN setFixedRefreshRateWrite(updateIdleStats(s, t, -1), rate)
    ELSE s

\* setActiveVrrConfiguration(activeConfigId, teFrequency) of the statistic,
\* for the one configuration of the panel: the configuration id, the size
\* and the TE frequency it stores are the ones already stored.
setActiveVrrConfigurationOfStatistic(s, t) == updateIdleStats(s, t, -1)

\* getStatistics: the object it leaves; it returns the mStatistics of it
getStatistics(s, t) == updateIdleStats(s, t, -1)

\* The critical section of getUpdatedStatistics: the map it returns and the
\* object it leaves
getUpdatedStatisticsLocked(s, t) ==
    LET refreshed ==
            [k \in DOMAIN s.mStatistics |->
                IF s.mStatistics[k].mUpdated /\ k.mNumVsync < 0
                THEN [s.mStatistics[k] EXCEPT
                        !.mAccumulatedTimeNs = getPowerOffDurationNs(s, t)]
                ELSE s.mStatistics[k]]
        current == s.mDisplayRefreshProfile
    IN
    [updatedStatistics |-> refreshed,
     s |-> IF isPowerModeOffNowLocked(s)
           THEN [s EXCEPT !.mStatistics = Assign(refreshed, current,
                    [RecordAt(refreshed, current) EXCEPT !.mUpdated = TRUE])]
           ELSE [s EXCEPT !.mStatistics = refreshed]]

getUpdatedStatistics(s, t) ==
    getUpdatedStatisticsLocked(updateIdleStats(s, t, -1), t)

-----------------------------------------------------------------------------
(* The statistic as its callers drive it *)

StatCall(thread, name, time, flag, source, to, rate) ==
    [thread |-> thread, name |-> name, time |-> time, flag |-> flag,
     source |-> source, from |-> statistic.mDisplayRefreshProfile.mPowerMode,
     to |-> to, rate |-> rate]

RefreshCalls == {"onPresent", "onNonPresentRefresh"}

\* A whole call: the object it leaves and the map it returns
ApplyCall(s, t, call) ==
    CASE call.name \in RefreshCalls ->
            [s |-> onRefreshInternal(s, t, call.time, call.flag, call.source),
             updatedStatistics |-> <<>>]
      [] call.name = "onPowerStateChange" ->
            [s |-> onPowerStateChange(s, t, call.from, call.to),
             updatedStatistics |-> <<>>]
      [] call.name = "setFixedRefreshRate" ->
            [s |-> setFixedRefreshRate(s, t, call.rate),
             updatedStatistics |-> <<>>]
      [] call.name = "setActiveVrrConfiguration" ->
            [s |-> setActiveVrrConfigurationOfStatistic(s, t),
             updatedStatistics |-> <<>>]
      [] call.name = "getStatistics" ->
            [s |-> getStatistics(s, t), updatedStatistics |-> <<>>]
      [] OTHER -> getUpdatedStatistics(s, t)

\* The pieces of a call.  A piece leaves the object, the position of the
\* thread, its locals and, at the end of a getter, the map returned.
Piece(s, pc, loc, out) == [s |-> s, pc |-> pc, loc |-> loc, out |-> out]

\* From the entry of the call to the critical section of updateIdleStats
BeginPiece(s, t, call) ==
    LET endNs == IF call.name \in RefreshCalls THEN call.time ELSE -1
        u == updateIdleStatsUnlocked(s, t, endNs)
        skipped ==
            CASE call.name \in RefreshCalls ->
                    s.mLastRefreshTimeInBootClockNs = kDefaultInvalidPresentTimeNs
              [] call.name = "onPowerStateChange" -> call.from = call.to
              [] call.name = "setFixedRefreshRate" ->
                    s.mMinimumRefreshRate = call.rate
              [] OTHER -> FALSE
    IN
    IF skipped
    THEN Piece(IF call.name \in RefreshCalls
               THEN onRefreshInternalFirst(s, call.time) ELSE s,
               "idle", NoLocals, <<>>)
    ELSE Piece(u.s, IF u.loc.kind = "none" THEN "rest" ELSE "updateIdleStats",
               u.loc, <<>>)

\* The critical section of updateIdleStats
IdleStatsPiece(s, loc) == Piece(updateIdleStatsLocked(s, loc), "rest", NoLocals, <<>>)

\* What follows updateIdleStats
RestPiece(s, t, call) ==
    CASE call.name \in RefreshCalls ->
            LET r == onRefreshInternalUnlocked(s, call.time, call.flag,
                                               call.source)
            IN Piece(r.s, IF r.locked THEN "record" ELSE "idle", NoLocals, <<>>)
      [] call.name = "onPowerStateChange" ->
            Piece(onPowerStateChangeLocked(s, t, call.from, call.to),
                  "idle", NoLocals, <<>>)
      [] call.name = "setFixedRefreshRate" ->
            Piece(setFixedRefreshRateWrite(s, call.rate), "idle", NoLocals, <<>>)
      [] call.name = "getStatistics" -> Piece(s, "idle", NoLocals, <<>>)
      [] OTHER ->
            LET r == getUpdatedStatisticsLocked(s, t)
            IN Piece(r.s, "idle", NoLocals, r.updatedStatistics)

\* The critical section of onRefreshInternal
RecordPiece(s, call) ==
    Piece(onRefreshInternalLocked(s, call.time, call.flag), "idle", NoLocals, <<>>)

StatIdle == \A th \in StatThreads : tpc[th] = "idle"

\* What the caller of a finished call holds
Returned(call, out) ==
    /\ updatedStatistics' =
           IF call.name = "getUpdatedStatistics" THEN out ELSE updatedStatistics
    /\ getsInARow' =
           IF call.name = "getUpdatedStatistics" THEN Min(getsInARow + 1, 2)
           ELSE 0

\* The boot clock advances by a tick, a few times in a row, or by a little
\* more than a second.
LongDelay == BootClockHz + 10
StatDelays == {1, LongDelay}

StatTick(d) ==
    /\ StatIdle
    /\ bootClock + d <= MaxStatTime
    /\ d = 1 => bootClock % LongDelay < MaxShortTicks
    /\ bootClock' = bootClock + d
    /\ roundBase' = NewStatistic(0)
    /\ roundCalls' = <<>>
    /\ UNCHANGED <<statistic, updatedStatistics, getsInARow, statCalls, tpc,
                   tcall, tloc>>

\* A call that no other call overlaps
AtomicCall(call) ==
    /\ StatIdle
    /\ statCalls < MaxStatCalls
    /\ statCalls' = statCalls + 1
    /\ LET r == ApplyCall(statistic, bootClock, call) IN
         /\ statistic' = r.s
         /\ Returned(call, r.updatedStatistics)
    /\ UNCHANGED <<bootClock, tpc, tcall, tloc, roundBase, roundCalls>>

\* The controller sets kPresentingWhenDoze only for a frame presented in doze.
FlagInputs ==
    IF statistic.mDisplayRefreshProfile.mPowerMode = HWC_POWER_MODE_DOZE
    THEN BOOLEAN ELSE {FALSE}

StatRateInputs == {1, 30}

\* Frames are presented, and refreshes inserted, while the display is on.
DisplayOn == ~isOff(statistic.mDisplayRefreshProfile)

PresentCalls(th) ==
    {StatCall(th, "onPresent", bootClock, flag, kRefreshSourceActivePresent,
              0, 0) : flag \in FlagInputs}

NonPresentCalls(th) ==
    {StatCall(th, "onNonPresentRefresh", bootClock, FALSE,
              kRefreshSourceFrameInsertion, 0, 0)}

PowerCalls(th) ==
    {StatCall(th, "onPowerStateChange", 0, FALSE, 0, to, 0) : to \in PowerModes}

RateCalls(th) ==
    {StatCall(th, "setFixedRefreshRate", 0, FALSE, 0, 0, rate) :
        rate \in StatRateInputs}

ConfigurationCalls(th) ==
    {StatCall(th, "setActiveVrrConfiguration", 0, FALSE, 0, 0, 0)}

GetCalls(th) == {StatCall(th, "getStatistics", 0, FALSE, 0, 0, 0)}

GetUpdatedCalls(th) == {StatCall(th, "getUpdatedStatistics", 0, FALSE, 0, 0, 0)}

Stat(op) == op /\ UNCHANGED <<ctrlVars, requests, pureVars, powerVars, ioVars>>

onPresent == DisplayOn /\ \E c \in PresentCalls("controller") : AtomicCall(c)
onNonPresentRefresh ==
    DisplayOn /\ \E c \in NonPresentCalls("controller") : AtomicCall(c)
PowerStateChange == \E c \in PowerCalls("controller") : AtomicCall(c)
FixedRefreshRate == \E c \in RateCalls("controller") : AtomicCall(c)
ActiveVrrConfiguration ==
    \E c \in ConfigurationCalls("controller") : AtomicCall(c)
ReadStatistics == \E c \in GetCalls("reporter") : AtomicCall(c)
ReadUpdatedStatistics == \E c \in GetUpdatedCalls("reporter") : AtomicCall(c)

NextStat ==
    \/ Stat(\E d \in StatDelays : StatTick(d))
    \/ Stat(onPresent)
    \/ Stat(onNonPresentRefresh)
    \/ Stat(PowerStateChange)
    \/ Stat(FixedRefreshRate)
    \/ Stat(ActiveVrrConfiguration)
    \/ Stat(ReadStatistics)
    \/ Stat(ReadUpdatedStatistics)

SpecStat == Init /\ [][NextStat]_vars

\* The controller hands every present and every frame insertion to the
\* statistic, whatever the power mode: a refresh while the display is off
RefreshWhileOff ==
    /\ ~DisplayOn
    /\ \E c \in PresentCalls("controller") \cup NonPresentCalls("controller") :
           AtomicCall(c)

NextStatOff ==
    \/ Stat(\E d \in StatDelays : StatTick(d))
    \/ Stat(onPresent)
    \/ Stat(RefreshWhileOff)
    \/ Stat(PowerStateChange)

SpecStatOff == Init /\ [][NextStatOff]_vars

-----------------------------------------------------------------------------
(* The statistic called from two threads.  The critical sections are steps; *)
(* what a call does outside them is a step for each stretch between them.   *)
(* A thread begins a call while the other thread is inside one only if it   *)
(* has made no call since both were idle, so that at most two calls overlap. *)

Advance(th, call, piece) ==
    /\ statistic' = piece.s
    /\ tpc' = [tpc EXCEPT ![th] = piece.pc]
    /\ tloc' = [tloc EXCEPT ![th] = piece.loc]
    /\ tcall' = [tcall EXCEPT ![th] =
                    IF piece.pc = "idle" THEN NoStatCall ELSE call]
    /\ IF piece.pc = "idle" THEN Returned(call, piece.out)
       ELSE UNCHANGED <<updatedStatistics, getsInARow>>
    /\ UNCHANGED bootClock

BeginCall(th, call) ==
    /\ tpc[th] = "idle"
    /\ statCalls < MaxStatCalls
    /\ StatIdle \/ (Len(roundCalls) = 1 /\ roundCalls[1].thread # th)
    /\ statCalls' = statCalls + 1
    /\ roundBase' = IF StatIdle THEN statistic ELSE roundBase
    /\ roundCalls' = IF StatIdle THEN <<call>> ELSE Append(roundCalls, call)
    /\ Advance(th, call, BeginPiece(statistic, bootClock, call))

EnterIdleStats(th) ==
    /\ tpc[th] = "updateIdleStats"
    /\ Advance(th, tcall[th], IdleStatsPiece(statistic, tloc[th]))
    /\ UNCHANGED <<statCalls, roundBase, roundCalls>>

Rest(th) ==
    /\ tpc[th] = "rest"
    /\ Advance(th, tcall[th], RestPiece(statistic, bootClock, tcall[th]))
    /\ UNCHANGED <<statCalls, roundBase, roundCalls>>

Record(th) ==
    /\ tpc[th] = "record"
    /\ Advance(th, tcall[th], RecordPiece(statistic, tcall[th]))
    /\ UNCHANGED <<statCalls, roundBase, roundCalls>>

ReporterBegins ==
    \E c \in GetCalls("reporter") \cup GetUpdatedCalls("reporter") :
        BeginCall("reporter", c)

ControllerRefreshes ==
    /\ DisplayOn
    /\ \E c \in PresentCalls("controller") \cup NonPresentCalls("controller") :
           BeginCall("controller", c)

ControllerSets ==
    \E c \in PowerCalls("controller") \cup RateCalls("controller") :
        BeginCall("controller", c)

NextStatConc ==
    \/ Stat(\E d \in StatDelays : StatTick(d))
    \/ Stat(ReporterBegins)
    \/ Stat(ControllerRefreshes)
    \/ Stat(ControllerSets)
    \/ Stat(\E th \in StatThreads : EnterIdleStats(th))
    \/ Stat(\E th \in StatThreads : Rest(th))
    \/ Stat(\E th \in StatThreads : Record(th))

SpecStatConc == Init /\ [][NextStatConc]_vars

-----------------------------------------------------------------------------
(* The state residencies: DisplayStateResidencyProvider.  The panel has one *)
(* configuration, so the width and the height are the same in every        *)
(* profile and are left out.                                               *)

PowerStatsProfile(powerMode, brightnessMode, fps, refreshSource) ==
    [mPowerMode |-> powerMode, mBrightnessMode |-> brightnessMode,
     mFps |-> fps, mRefreshSource |-> refreshSource]

\* The vsync counts of kFpsMappingTable, whose fractions are 240 / count
kFpsMappingTable == {240, 120, 24, 10, 8, 7, 6, 5, 4, 3, 2}
kFpsLowPowerModeMappingTable == {1, 30}

\* DisplayRefreshProfile::toPowerStatsProfile(false): no fps is mapped
toPowerStatsProfileUnmapped(profile) ==
    IF profile.mNumVsync < 0
    THEN PowerStatsProfile(HWC_POWER_MODE_OFF, "kInvalidBrightnessMode", -1,
                           kRefreshSourceActivePresent)
    ELSE PowerStatsProfile(profile.mPowerMode, profile.mBrightnessMode,
             roundDivide(mTeFrequency, profile.mNumVsync),
             profile.mRefreshSource)

\* DisplayRefreshProfile::toPowerStatsProfile(true); the fraction
\* mTeFrequency / mNumVsync is looked up in kFpsMappingTable by its value
toPowerStatsProfile(profile) ==
    IF profile.mNumVsync < 0
    THEN PowerStatsProfile(HWC_POWER_MODE_OFF, "kInvalidBrightnessMode", -1,
                           kRefreshSourceActivePresent)
    ELSE PowerStatsProfile(profile.mPowerMode, profile.mBrightnessMode,
             IF \E count \in kFpsMappingTable :
                    mTeFrequency * count = 240 * profile.mNumVsync
             THEN roundDivide(mTeFrequency, profile.mNumVsync) ELSE 0,
             profile.mRefreshSource)

\* generateUniqueStates: the profiles that have a state, over kRefreshSource,
\* kActivePowerModes and the brightness modes below kInvalidBrightnessMode
mUniqueStates ==
    {PowerStatsProfile(HWC_POWER_MODE_OFF, "kInvalidBrightnessMode", -1,
                       kRefreshSourceActivePresent)} \cup
    UNION {
        IF ~isPresentRefresh(refreshSource) /\ powerMode = HWC_POWER_MODE_DOZE
        THEN {}
        ELSE IF powerMode = HWC_POWER_MODE_DOZE
        THEN {PowerStatsProfile(powerMode, brightnessMode, fps, refreshSource) :
                  fps \in kFpsLowPowerModeMappingTable}
        ELSE {PowerStatsProfile(powerMode, brightnessMode, fps, refreshSource) :
                  fps \in {0} \cup {roundDivide(240, count) :
                                        count \in kFpsMappingTable}} :
        refreshSource \in {kRefreshSourceActivePresent, kRefreshSourceIdlePresent,
                           kRefreshSourceFrameInsertion, kRefreshSourceBrightness},
        powerMode \in {HWC_POWER_MODE_DOZE, HWC_POWER_MODE_NORMAL},
        brightnessMode \in {"kNormalBrightnessMode", "kHighBrightnessMode"}}

\* generateStateName without the width and the height: the mode token and,
\* after the "@", the fps token of a present or the refresh source token
generateStateName(profile) ==
    IF isPowerModeOff(profile.mPowerMode) THEN <<"OFF">>
    ELSE <<IF profile.mPowerMode = HWC_POWER_MODE_DOZE THEN "LPM"
           ELSE IF profile.mBrightnessMode = "kHighBrightnessMode" THEN "HBM"
           ELSE "NBM",
           IF ~isPresentRefresh(profile.mRefreshSource) THEN "np"
           ELSE IF profile.mFps = 0 THEN "oth"
           ELSE ToString(profile.mFps)>>

\* Two profiles are one key of mPowerStatsProfileToIdMap
SamePowerStatsProfile(a, b) ==
    IF isPowerModeOff(a.mPowerMode) \/ isPowerModeOff(b.mPowerMode)
    THEN isPowerModeOff(a.mPowerMode) = isPowerModeOff(b.mPowerMode)
    ELSE a = b

\* The sum of the counts of the records of a set of keys
RECURSIVE SumCount(_, _)
SumCount(statistics, keys) ==
    IF keys = {} THEN 0
    ELSE LET k == CHOOSE x \in keys : TRUE IN
         statistics[k].mCount + SumCount(statistics, keys \ {k})

\* aggregateStatistics: totalStateEntryCount of every state a record of the
\* map is merged into; a record whose profile mPowerStatsProfileToIdMap.find
\* does not find is skipped.  A state is identified by its name, as
\* generatePowerStatsStates gives one id to a name.  getUpdatedStatistics
\* returns every record of the statistic at each call, so a state once
\* touched is touched again and its count is the one computed here.
aggregateStatistics(statistics) ==
    LET merged == {k \in DOMAIN statistics :
                      \E state \in mUniqueStates :
                          SamePowerStatsProfile(state, toPowerStatsProfile(k))}
        names == {generateStateName(toPowerStatsProfile(k)) : k \in merged}
    IN  [name \in names |->
            SumCount(statistics,
                {k \in merged :
                    generateStateName(toPowerStatsProfile(k)) = name})]

\* mAccumulatedTimeNs / MilliToNano: the whole milliseconds of a time in
\* ticks of the boot clock, of which a second has BootClockHz
MilliToNano == 1000000

toMs(timeNs) == (timeNs * (kNanosPerSecond \div MilliToNano)) \div BootClockHz

RECURSIVE SumTimeMs(_, _)
SumTimeMs(statistics, keys) ==
    IF keys = {} THEN 0
    ELSE LET k == CHOOSE x \in keys : TRUE IN
         toMs(statistics[k].mAccumulatedTimeNs) +
             SumTimeMs(statistics, keys \ {k})

\* aggregateStatistics: totalTimeInStateMs of every state a record of the map
\* is merged into.  The first record of a state assigns its milliseconds and
\* every further record of the state adds its own, each divided on its own.
aggregateTimeInState(statistics) ==
    LET merged == {k \in DOMAIN statistics :
                      \E state \in mUniqueStates :
                          SamePowerStatsProfile(state, toPowerStatsProfile(k))}
        names == {generateStateName(toPowerStatsProfile(k)) : k \in merged}
    IN  [name \in names |->
            SumTimeMs(statistics,
                {k \in merged :
                    generateStateName(toPowerStatsProfile(k)) = name})]

-----------------------------------------------------------------------------
(* The states of the power stats: generatePowerStatsStates gives an id to  *)
(* every state name.                                                       *)

\* The lexicographic order of two tuples of numbers
RECURSIVE LexLess(_, _)
LexLess(a, b) ==
    IF a = <<>> THEN FALSE
    ELSE IF Head(a) # Head(b) THEN Head(a) < Head(b)
    ELSE LexLess(Tail(a), Tail(b))

\* The orders in which the std::map mUniqueStates may hold its keys: the
\* lexicographic orders of the four fields
PowerStatsFields == {"mPowerMode", "mBrightnessMode", "mFps", "mRefreshSource"}
FieldOrderInputs ==
    {order \in [1..4 -> PowerStatsFields] :
        \A i \in 1..4 : \A j \in 1..4 : order[i] = order[j] => i = j}

FieldValue(profile, field) ==
    IF field = "mBrightnessMode" THEN BrightnessRank(profile.mBrightnessMode)
    ELSE profile[field]

PowerStatsProfileLess(order, a, b) ==
    LexLess([i \in 1..4 |-> FieldValue(a, order[i])],
            [i \in 1..4 |-> FieldValue(b, order[i])])

\* The provider when generateUniqueStates has returned
NewProvider(order) ==
    [order |-> order, left |-> mUniqueStates, stateNameIDMap |-> <<>>,
     index |-> 0, mStates |-> <<>>, mStateResidency |-> <<>>,
     mPowerStatsProfileToIdMap |-> <<>>]

\* The key the loop of generatePowerStatsStates visits next
NextState(p) ==
    CHOOSE state \in p.left :
        \A other \in p.left \ {state} :
            PowerStatsProfileLess(p.order, state, other)

\* One round of the loop that gives every name one id, which makes
\* every name an id of its own
AssignIdAlwaysNew(p, state) ==
    LET name == generateStateName(state) IN
    [p EXCEPT !.left = @ \ {state},
              !.stateNameIDMap = (name :> p.index) @@ @,
              !.index = @ + 1,
              !.mStates = Append(@, [id |-> p.index, name |-> name]),
              !.mStateResidency = Append(@, [id |-> p.index]),
              !.mPowerStatsProfileToIdMap = (state :> p.index) @@ @]

\* One round of the loop of generatePowerStatsStates
AssignId(p, state) ==
    LET name == generateStateName(state) IN
    IF name \in DOMAIN p.stateNameIDMap
    THEN [p EXCEPT !.left = @ \ {state},
                   !.mPowerStatsProfileToIdMap =
                       (state :> p.stateNameIDMap[name]) @@ @]
    ELSE [p EXCEPT !.left = @ \ {state},
                   !.stateNameIDMap = (name :> p.index) @@ @,
                   !.index = @ + 1,
                   !.mStates = Append(@, [id |-> p.index, name |-> name]),
                   !.mStateResidency = Append(@, [id |-> p.index]),
                   !.mPowerStatsProfileToIdMap = (state :> p.index) @@ @]

\* The constructor is in the loop of generatePowerStatsStates
GenerateState ==
    /\ provider.left # {}
    /\ provider' = AssignId(provider, NextState(provider))
    /\ UNCHANGED gotStates

\* The calls of getStates a behaviour has
MaxGetStates == 2

\* getStates() of the constructed provider
getStates ==
    /\ provider.left = {}
    /\ Len(gotStates) < MaxGetStates
    /\ gotStates' = Append(gotStates, provider.mStates)
    /\ UNCHANGED provider

InitStates ==
    /\ Constructed
    /\ NoRates
    /\ NoNames
    /\ orderKeys = <<>>
    /\ orderLess = <<>>
    /\ provider \in {NewProvider(order) : order \in FieldOrderInputs}
    /\ gotStates = <<>>

States(op) ==
    op /\ UNCHANGED <<ctrlVars, requests, statVars, rateVars, nameVars,
                    orderVars, powerVars, ioVars>>

NextStates ==
    \/ States(GenerateState)
    \/ States(getStates)

SpecStates == InitStates /\ [][NextStates]_vars

-----------------------------------------------------------------------------
(* Power mode changes: the display calls preSetPowerMode(m), changes the   *)
(* mode of the panel and calls postSetPowerMode(m), while other threads    *)
(* call the controller.                                                    *)

\* The listeners the constructor registers
mPowerModeListeners == {"mRefreshRateCalculator", "mVariableRefreshRateStatistic"}

\* postSetPowerMode with its calls of the listeners: each listener is called
\* with (mPowerMode, powerMode) before mPowerMode is assigned
postSetPowerModeNotifies(powerMode) ==
    LET changes == mPowerMode # powerMode /\ powerMode \in PowerModes IN
    /\ postSetPowerMode(powerMode)
    /\ statistic' = IF changes
                    THEN onPowerStateChange(statistic, bootClock, mPowerMode,
                                            powerMode)
                    ELSE statistic
    /\ listenerCalls' = [from |-> mPowerMode, to |-> powerMode,
                         listeners |-> IF changes THEN mPowerModeListeners
                                       ELSE {}]

PowerRateInputs == {1, 30}

PreStep(powerMode, ok) ==
    /\ Started
    /\ mVrrActiveConfig = 0
    /\ powerModeChange.to = -1
    /\ requests < MaxRequests
    /\ requests' = requests + 1
    /\ preSetPowerMode(powerMode, ok)
    /\ powerModeChange' = [to |-> powerMode, interleaved |-> FALSE]
    /\ UNCHANGED <<statVars, pureVars, listenerCalls, ioVars>>

PostStep ==
    /\ powerModeChange.to # -1
    /\ postSetPowerModeNotifies(powerModeChange.to)
    /\ powerModeChange' = NoPowerModeChange
    /\ UNCHANGED <<requests, statRestVars, pureVars, ioVars>>

\* A call of another thread, which may fall between the two phases
Interleaved(op) ==
    /\ Started
    /\ mVrrActiveConfig = 0
    /\ requests < MaxRequests
    /\ requests' = requests + 1
    /\ op
    /\ powerModeChange' =
           [powerModeChange EXCEPT !.interleaved = powerModeChange.to # -1]
    /\ UNCHANGED <<statVars, pureVars, listenerCalls, ioVars>>

\* The present timeouts of the vendor's handler, less kDefaultAheadOfTimeNs
VendorTimeoutInputs == {0}

\* A frame presented while no power mode change is under way
Present(op) ==
    /\ powerModeChange.to = -1
    /\ mVrrActiveConfig = 0
    /\ Call(op)

NextPower ==
    \/ BroughtUp /\ Call(Tick)
    \/ ~mEnabled /\ Call(setEnable(TRUE))
    \/ mEnabled /\ mVrrConfigs = <<>> /\ Call(setVrrConfigurations(ConfigTable))
    \/ mVrrConfigs # <<>> /\ mVrrActiveConfig = -1 /\
           Call(setActiveVrrConfiguration(0, TRUE))
    \/ \E timestampNanos \in PresentTimeInputs :
           /\ powerModeChange.to = -1
           /\ Interleaved(setExpectedPresentTime(timestampNanos))
    \/ Present(onPresentBegin(TRUE))
    \/ \E firstTimeOutNs \in VendorTimeoutInputs :
           Present(onPresentEndTimeout(firstTimeOutNs))
    \/ \E powerMode \in PowerModes, ok \in BOOLEAN : PreStep(powerMode, ok)
    \/ PostStep
    \/ \E controllerType \in ControllerTypeInputs, ok \in BOOLEAN :
           Interleaved(setPresentTimeoutController(controllerType, ok))
    \/ \E rate \in PowerRateInputs, ok \in BOOLEAN :
           Interleaved(setFixedRefreshRateRange(rate, 0, ok))
    \/ Free(WorkerStart(TRUE))
    \/ WorkerStep

SpecPower == Init /\ [][NextPower]_vars

-----------------------------------------------------------------------------
(* mMutex and the writes of the sysfs nodes.  Each operation is the        *)
(* sequence of its acquisitions and releases of mMutex and of its calls    *)
(* of mFileNode->writeValue, in the order of the code; a write that sits   *)
(* on a branch may be skipped.                                             *)

IoLock == [op |-> "lock", node |-> "none"]
IoUnlock == [op |-> "unlock", node |-> "none"]
IoWrite(node) == [op |-> "write", node |-> node]

\* The operations of the calling threads
IoCalls ==
    [notifyExpectedPresent |->
         <<IoLock, IoUnlock, IoWrite("expected_present_time_ns"),
           IoWrite("frame_interval_ns")>>,
     setActiveVrrConfiguration |->
         <<IoLock, IoWrite("expected_present_time_ns"),
           IoWrite("kRefreshControlNodeName"), IoUnlock>>,
     setEnable |-> <<IoLock, IoUnlock>>,
     preSetPowerMode |-> <<IoLock, IoWrite("kRefreshControlNodeName"), IoUnlock>>,
     postSetPowerMode |-> <<IoLock, IoUnlock>>,
     setPresentTimeoutController |->
         <<IoLock, IoWrite("kRefreshControlNodeName"), IoUnlock>>,
     setFixedRefreshRateRange |->
         <<IoLock, IoWrite("kRefreshControlNodeName"), IoUnlock>>,
     onPresent |->
         <<IoLock, IoWrite("kRefreshControlNodeName"), IoUnlock, IoLock, IoUnlock>>]

\* One turn of the loop of threadBody
IoThreadBody ==
    <<IoLock, IoWrite("kRefreshControlNodeName"), IoUnlock, IoWrite("kFrameRateNodeName")>>

IoScript(call) ==
    IF call = "threadBody" THEN IoThreadBody ELSE IoCalls[call]

\* The step a thread is at, none when it is in no call
IoAt(t) ==
    IF tio[t].call = "none" THEN [op |-> "none", node |-> "none"]
    ELSE IoScript(tio[t].call)[tio[t].pc]

\* The thread moves on, and leaves its call after the last step
IoAdvance(t) ==
    IF tio[t].pc = Len(IoScript(tio[t].call))
    THEN [tio EXCEPT ![t] = [call |-> "none", pc |-> 0]]
    ELSE [tio EXCEPT ![t].pc = @ + 1]

IoBegin(t, call) ==
    /\ tio[t].call = "none"
    /\ tio' = [tio EXCEPT ![t] = [call |-> call, pc |-> 1]]
    /\ UNCHANGED <<mMutex, nodeWrite>>

\* std::lock_guard and std::unique_lock: the thread waits for the mutex
IoAcquire(t) ==
    /\ IoAt(t).op = "lock"
    /\ mMutex = "free"
    /\ mMutex' = t
    /\ tio' = IoAdvance(t)
    /\ UNCHANGED nodeWrite

IoRelease(t) ==
    /\ IoAt(t).op = "unlock"
    /\ mMutex' = "free"
    /\ tio' = IoAdvance(t)
    /\ UNCHANGED nodeWrite

\* mFileNode->writeValue(node, value)
IoWriteValue(t) ==
    /\ IoAt(t).op = "write"
    /\ nodeWrite' = [node |-> IoAt(t).node, locked |-> mMutex = t]
    /\ tio' = IoAdvance(t)
    /\ UNCHANGED mMutex

\* The branch of the write is not taken
IoSkipWrite(t) ==
    /\ IoAt(t).op = "write"
    /\ tio' = IoAdvance(t)
    /\ UNCHANGED <<mMutex, nodeWrite>>

Io(op) ==
    op /\ UNCHANGED <<ctrlVars, requests, statVars, pureVars, powerVars,
                    mutexState>>

NextIo ==
    \/ \E t \in IoThreads \ {"worker"}, call \in DOMAIN IoCalls :
           Io(IoBegin(t, call))
    \/ Io(IoBegin("worker", "threadBody"))
    \/ \E t \in IoThreads : Io(IoAcquire(t))
    \/ \E t \in IoThreads : Io(IoRelease(t))
    \/ \E t \in IoThreads : Io(IoWriteValue(t))
    \/ \E t \in IoThreads : Io(IoSkipWrite(t))

SpecIo == Init /\ [][NextIo]_vars

-----------------------------------------------------------------------------
(* The event queue on its own: events are posted, dropped by type and      *)
(* popped.                                                                 *)

MaxDropQueue == 3

\* Two general events and a callback event, and the deadlines they get
DropTypeInputs ==
    {kSystemRenderingTimeout, kHibernateTimeout, kMinLockTimeForPeakRefreshRate}
DropWhenInputs == {1, 2, 3}

\* The types dropped: an event type or the mask of a category
DropTargetInputs ==
    DropTypeInputs \cup {kGeneralEventMask, kCallbackEventMask}

\* What the steps of the queue leave alone
QueueFrame ==
    UNCHANGED <<now, mState, mEnabled, mThreadExit, mPowerMode, workerVars,
                notified, recVars, opc, cfgVars, minVars, lastCall, requests,
                statVars, pureVars, powerVars, ioVars>>

QueuePost(type, when) ==
    /\ BagCardinality(mEventQueue) < MaxDropQueue
    /\ mEventQueue' = postEvent(mEventQueue, type, when)
    /\ lastEvent' = NoEvent
    /\ QueueFrame

QueueDrop(target) ==
    /\ mEventQueue' = dropEventLocked(mEventQueue, target)
    /\ lastEvent' = NoEvent
    /\ QueueFrame

\* top() and pop() of threadBody
QueuePop ==
    /\ ~QueueEmpty(mEventQueue)
    /\ \E event \in TopEvents(mEventQueue) :
           /\ lastEvent' = event
           /\ mEventQueue' = PopEvent(mEventQueue, event)
    /\ QueueFrame

NextQueue ==
    \/ \E type \in DropTypeInputs, when \in DropWhenInputs :
           QueuePost(type, when)
    \/ \E target \in DropTargetInputs : QueueDrop(target)
    \/ QueuePop

SpecQueue == Init /\ [][NextQueue]_vars

-----------------------------------------------------------------------------
(* The two mutexes: mMutex of the controller and mMutex of the statistic.  *)
(* A call is the sequence of its acquisitions and releases; a branch step  *)
(* is a test of the code that leaves out the steps of a section.           *)

Acquire(mutex) == [op |-> "lock", mutex |-> mutex, skips |-> {}]
Release(mutex) == [op |-> "unlock", mutex |-> mutex, skips |-> {}]
Branch(skips) == [op |-> "branch", mutex |-> "none", skips |-> skips]

\* updateIdleStats, which returns early or takes the mutex of the statistic,
\* written with the mutex of the statistic held by its caller
updateIdleStatsLocksInside ==
    <<Acquire("statistic"), Branch({2}), Acquire("statistic"),
      Release("statistic")>>

\* updateIdleStats, which returns early or takes the mutex of the statistic
\* in one of its two branches, followed by the scoped_lock of its caller
updateIdleStatsLocks ==
    <<Branch({2}), Acquire("statistic"), Release("statistic"),
      Acquire("statistic")>>

\* updateVsyncHistory: it returns without a fence, and takes the mutex again
\* when the fence has signalled
updateVsyncHistoryLocks ==
    <<Acquire("controller"), Release("controller"), Branch({2}),
      Acquire("controller"), Release("controller")>>

\* onRefreshInternal: the first refresh takes no mutex, later ones call
\* updateIdleStats and, unless numVsync is 0, record under the mutex
onRefreshInternalLocks ==
    <<Branch({6}), Branch({2}), Acquire("statistic"), Release("statistic"),
      Branch({2}), Acquire("statistic"), Release("statistic")>>

LockCalls ==
    [notifyExpectedPresent |-> <<Acquire("controller"), Release("controller")>>,
     setActiveVrrConfiguration |->
         <<Acquire("controller"), Branch({2}), Acquire("statistic"),
           Release("statistic"), Release("controller")>>,
     postSetPowerMode |->
         <<Acquire("controller"), Branch({5})>> \o updateIdleStatsLocks \o
         <<Release("statistic"), Release("controller")>>,
     setFixedRefreshRateRange |->
         <<Acquire("controller"), Branch({3}), Branch({2}),
           Acquire("statistic"), Release("statistic"), Release("controller")>>,
     onPresent |->
         <<Acquire("controller")>> \o onRefreshInternalLocks \o
         <<Release("controller"), Branch({7})>> \o updateVsyncHistoryLocks \o
         <<Acquire("controller"), Release("controller")>>,
     threadBody |->
         <<Acquire("controller")>> \o onRefreshInternalLocks \o
         <<Release("controller"), Branch({5})>> \o updateVsyncHistoryLocks,
     getStateResidency |->
         updateIdleStatsLocks \o <<Release("statistic")>>]

\* The composer calls the controller for the display, a binder thread sets
\* the range of the refresh rate
LockCallsOf(t) ==
    IF t = "worker" THEN {"threadBody"}
    ELSE IF t = "reporter" THEN {"getStateResidency"}
    ELSE IF t = "binder" THEN {"setFixedRefreshRateRange"}
    ELSE {"notifyExpectedPresent", "setActiveVrrConfiguration",
          "postSetPowerMode", "onPresent"}

\* The step a thread is at, none when it is in no call
LockAt(t) ==
    IF mutexState.at[t].call = "none"
    THEN [op |-> "none", mutex |-> "none", skips |-> {}]
    ELSE LockCalls[mutexState.at[t].call][mutexState.at[t].pc]

\* The thread moves on by n steps, and leaves its call after the last step
LockAdvance(t, n) ==
    IF mutexState.at[t].pc + n > Len(LockCalls[mutexState.at[t].call])
    THEN [mutexState.at EXCEPT ![t] = [call |-> "none", pc |-> 0]]
    ELSE [mutexState.at EXCEPT ![t].pc = @ + n]

LockBegin(t, call) ==
    /\ mutexState.at[t].call = "none"
    /\ mutexState' = [mutexState EXCEPT !.at[t] = [call |-> call, pc |-> 1]]

\* std::lock_guard, std::unique_lock and std::scoped_lock: the thread waits
\* until the mutex is free; a thread that owns it would wait for itself
LockAcquire(t) ==
    /\ LockAt(t).op = "lock"
    /\ mutexState.owner[LockAt(t).mutex] = "free"
    /\ mutexState' =
           [owner |-> [mutexState.owner EXCEPT ![LockAt(t).mutex] = t],
            at |-> LockAdvance(t, 1)]

LockRelease(t) ==
    /\ LockAt(t).op = "unlock"
    /\ mutexState' =
           [owner |-> [mutexState.owner EXCEPT ![LockAt(t).mutex] = "free"],
            at |-> LockAdvance(t, 1)]

\* A test of the code: the section is entered, or its steps are left out
LockBranch(t) ==
    /\ LockAt(t).op = "branch"
    /\ \E n \in {0} \cup LockAt(t).skips :
           mutexState' = [mutexState EXCEPT !.at = LockAdvance(t, n + 1)]

Locks(op) ==
    op /\ UNCHANGED <<ctrlVars, requests, statVars, pureVars, powerVars,
                    mMutex, tio, nodeWrite>>

NextLocks ==
    \/ \E t \in LockThreads : \E call \in LockCallsOf(t) :
           Locks(LockBegin(t, call))
    \/ \E t \in LockThreads : Locks(LockAcquire(t))
    \/ \E t \in LockThreads : Locks(LockRelease(t))
    \/ \E t \in LockThreads : Locks(LockBranch(t))

\* Every thread goes on when it can: a critical section ends, and a mutex
\* that is free again and again is given to each thread that waits for it
SpecLocks ==
    /\ Init
    /\ [][NextLocks]_vars
    /\ \A t \in LockThreads :
           /\ WF_vars(Locks(LockRelease(t)))
           /\ WF_vars(Locks(LockBranch(t)))
           /\ SF_vars(Locks(LockAcquire(t)))

-----------------------------------------------------------------------------
(* The configuration tables handed to the controller *)

\* Every table of the configurations over the ids 0 and 1
ConfigTableInputs ==
    UNION {[ids -> ConfigurationInputs] : ids \in SUBSET {0, 1}}

\* The controller receives tables and has configurations activated
NextConfigs ==
    \/ Free(WorkerStart(TRUE))
    \/ \E configs \in ConfigTableInputs : Call(setVrrConfigurations(configs))
    \/ \E config \in ConfigInputs : Call(setActiveVrrConfiguration(config, TRUE))

SpecConfigs == Init /\ [][NextConfigs]_vars

-----------------------------------------------------------------------------
(* The state names of refresh profiles *)

\* Vsync counts at a TE of 120 Hz: off, 120, 60, 30, 24 and 1 fps of the
\* table, and 17, 13 and 11 fps, which the table does not have
NumVsyncInputs == {-1, 1, 2, 4, 5, 7, 9, 11, 120}
NamePowerModeInputs ==
    {HWC_POWER_MODE_OFF, HWC_POWER_MODE_DOZE, HWC_POWER_MODE_NORMAL}
BrightnessModeInputs ==
    {"kNormalBrightnessMode", "kHighBrightnessMode", "kInvalidBrightnessMode"}
RefreshSourceInputs ==
    {kRefreshSourceActivePresent, kRefreshSourceIdlePresent,
     kRefreshSourceFrameInsertion, kRefreshSourceBrightness}

\* Two refresh profiles of one mode, brightness and source
InitNames ==
    /\ Constructed
    /\ NoRates
    /\ nameProfiles \in
           {<<DisplayRefreshProfile(powerMode, brightnessMode, first, source),
              DisplayRefreshProfile(powerMode, brightnessMode, second, source)>> :
                powerMode \in NamePowerModeInputs,
                brightnessMode \in BrightnessModeInputs,
                source \in RefreshSourceInputs,
                first \in NumVsyncInputs, second \in NumVsyncInputs}
    /\ stateNames = <<>>
    /\ NoOrder

\* generateStateName(&profile) of the power stats profile of one of the two
\* refresh profiles; the generator keeps nothing between two calls
GenerateStateName(i) ==
    /\ Len(stateNames) < 3
    /\ stateNames' =
           Append(stateNames,
                  [of |-> i,
                   name |-> generateStateName(
                                toPowerStatsProfile(nameProfiles[i]))])
    /\ UNCHANGED nameProfiles

Names(op) ==
    op /\ UNCHANGED <<ctrlVars, requests, statVars, rateVars, orderVars,
                    providerVars, powerVars, ioVars>>

NextNames ==
    \E i \in {1, 2} : Names(GenerateStateName(i))

SpecNames == InitNames /\ [][NextNames]_vars

-----------------------------------------------------------------------------
(* The order of the statistics keys *)

\* The power modes of a DisplayStatus, two configurations, two brightness
\* modes, and three pairs of a vsync count and a refresh source
OrderPowerModeInputs ==
    {HWC_POWER_MODE_OFF, HWC_POWER_MODE_DOZE, HWC_POWER_MODE_NORMAL,
     HWC_POWER_MODE_DOZE_SUSPEND}
OrderConfigInputs == {0, 1}
OrderBrightnessInputs == {"kNormalBrightnessMode", "kHighBrightnessMode"}
OrderRefreshInputs ==
    {<<1, kRefreshSourceActivePresent>>, <<1, kRefreshSourceIdlePresent>>,
     <<2, kRefreshSourceActivePresent>>}

\* DisplayStatus::operator== and operator< of keys of any configuration
DisplayStatusEqualsOfConfigs(a, b) ==
    IF isOff(a) \/ isOff(b) THEN isOff(a) = isOff(b)
    ELSE /\ a.mActiveConfigId = b.mActiveConfigId
         /\ a.mPowerMode = b.mPowerMode
         /\ a.mBrightnessMode = b.mBrightnessMode

DisplayStatusLessOfConfigs(a, b) ==
    IF isOff(a) /\ isOff(b) THEN FALSE
    ELSE IF a.mPowerMode # b.mPowerMode
         THEN isOff(a) \/ a.mPowerMode < b.mPowerMode
    ELSE IF a.mActiveConfigId # b.mActiveConfigId
         THEN a.mActiveConfigId < b.mActiveConfigId
         ELSE BrightnessRank(a.mBrightnessMode) < BrightnessRank(b.mBrightnessMode)

\* An order of the keys that tells the off profiles apart
DisplayRefreshProfileLessOfConfigsByFields(a, b) ==
    IF a.mPowerMode # b.mPowerMode THEN a.mPowerMode < b.mPowerMode
    ELSE IF a.mActiveConfigId # b.mActiveConfigId
    THEN a.mActiveConfigId < b.mActiveConfigId
    ELSE IF a.mBrightnessMode # b.mBrightnessMode
    THEN BrightnessRank(a.mBrightnessMode) < BrightnessRank(b.mBrightnessMode)
    ELSE IF a.mNumVsync # b.mNumVsync THEN a.mNumVsync < b.mNumVsync
    ELSE a.mRefreshSource < b.mRefreshSource

\* DisplayRefreshProfile::operator< of keys of any configuration
DisplayRefreshProfileLessOfConfigs(a, b) ==
    IF (isOff(a) \/ isOff(b)) /\ isOff(a) = isOff(b) THEN FALSE
    ELSE IF ~DisplayStatusEqualsOfConfigs(a, b)
    THEN DisplayStatusLessOfConfigs(a, b)
    ELSE IF a.mNumVsync # b.mNumVsync THEN a.mNumVsync < b.mNumVsync
    ELSE a.mRefreshSource < b.mRefreshSource

OrderKeyInputs ==
    {[mPowerMode |-> powerMode, mActiveConfigId |-> config,
      mBrightnessMode |-> brightnessMode, mNumVsync |-> refresh[1],
      mRefreshSource |-> refresh[2]] :
        powerMode \in OrderPowerModeInputs, config \in OrderConfigInputs,
        brightnessMode \in OrderBrightnessInputs,
        refresh \in OrderRefreshInputs}

\* Three keys
InitOrder ==
    /\ Constructed
    /\ NoRates
    /\ NoNames
    /\ orderKeys \in [{1, 2, 3} -> OrderKeyInputs]
    /\ orderLess = <<>>
    /\ provider = <<>>
    /\ gotStates = <<>>

\* DisplayRefreshProfile::operator< of every pair of the three keys, as the
\* std::map evaluates it
CompareKeys ==
    /\ orderLess = <<>>
    /\ orderLess' =
           [i \in {1, 2, 3} |->
               [j \in {1, 2, 3} |->
                   DisplayRefreshProfileLessOfConfigs(orderKeys[i],
                                                      orderKeys[j])]]
    /\ UNCHANGED <<orderKeys, providerVars>>

Order(op) ==
    op /\ UNCHANGED <<ctrlVars, requests, statVars, rateVars, nameVars,
                    powerVars, ioVars>>

NextOrder == Order(CompareKeys)

SpecOrder == InitOrder /\ [][NextOrder]_vars

-----------------------------------------------------------------------------
(* The valid refresh rates of a configuration *)

\* Vsync periods and minimum frame intervals, in ns: TE signals of 240, 120,
\* 10, 4 and 3 Hz, and frame intervals that are and are not multiples of a
\* vsync period.
VsyncPeriodInputs == {4166666, 8333333, 100000000, 250000000, 333333333}
FrameIntervalInputs ==
    {2000000, 4166666, 8333333, 11111111, 16666666, 100000000, 300000000,
     1000000000, 1500000000}

RatesConfigInputs ==
    {VrrConfig(vsync, minFrame, FALSE, 0) :
         vsync \in VsyncPeriodInputs, minFrame \in FrameIntervalInputs}

RatesTargetInputs == {0, 1, 2, 3, 4, 30, 60, 90, 120, 121, 240, 241}

\* The configuration handed to generateValidRefreshRates and the rate handed
\* to convertToValidRefreshRate; the default configuration stands for an
\* active configuration id that setVrrConfigurations never stored.
InitRates ==
    /\ Constructed
    /\ ratesConfig \in RatesConfigInputs \cup {DefaultVrrConfig}
    /\ ratesTarget \in RatesTargetInputs
    /\ validRefreshRates = <<>>
    /\ validRefreshRate = -1
    /\ rpc = "start"
    /\ NoNames
    /\ NoOrder

\* setVrrConfigurations stores the list of the configuration
GenerateRates ==
    /\ rpc = "start"
    /\ ratesConfig # DefaultVrrConfig
    /\ validRefreshRates' = generateValidRefreshRates(ratesConfig)
    /\ rpc' = "generated"
    /\ UNCHANGED <<ratesConfig, ratesTarget, validRefreshRate>>

\* convertToValidRefreshRate, on the stored list or, for an id that was
\* never stored, on the empty list operator[] inserts
ConvertRate ==
    /\ \/ rpc = "generated"
       \/ rpc = "start" /\ ratesConfig = DefaultVrrConfig
    /\ validRefreshRate' =
           convertToValidRefreshRate(validRefreshRates, ratesConfig,
                                     ratesTarget)
    /\ rpc' = "converted"
    /\ UNCHANGED <<ratesConfig, ratesTarget, validRefreshRates>>

Rates(op) ==
    op /\ UNCHANGED <<ctrlVars, requests, statVars, nameVars, orderVars,
                    providerVars, powerVars, ioVars>>

NextRates ==
    \/ Rates(GenerateRates)
    \/ Rates(ConvertRate)

SpecRates == InitRates /\ [][NextRates]_vars

-----------------------------------------------------------------------------
(* Properties of the controller *)

LowPowerModes ==
    {HWC_POWER_MODE_OFF, HWC_POWER_MODE_DOZE, HWC_POWER_MODE_DOZE_SUSPEND}

\* C1: the state leaves kDisable only in a step that changes the power mode
\* to HWC_POWER_MODE_NORMAL, and a controller that is not being destroyed
\* enters kDisable only in a step that changes the power mode to off, doze or
\* doze-suspend; no step of the worker moves the state out of kDisable.
C1_DisabledOnlyByPowerMode ==
    [][/\ (mState = "kDisable" /\ mState' # "kDisable") =>
              (mPowerMode # HWC_POWER_MODE_NORMAL /\
               mPowerMode' = HWC_POWER_MODE_NORMAL)
       /\ (mState # "kDisable" /\ mState' = "kDisable" /\ ~mThreadExit') =>
              (mPowerMode' # mPowerMode /\ mPowerMode' \in LowPowerModes)]_vars

\* C2: an event the worker pops was queued, its deadline is not after the
\* clock, no queued event has a strictly smaller deadline, and the pop takes
\* exactly one instance of it out of the queue.
C2_DispatchInDeadlineOrder ==
    [][lastEvent' # NoEvent =>
           /\ BagIn(lastEvent', mEventQueue)
           /\ lastEvent'.mWhenNs <= now'
           /\ \A e \in BagToSet(mEventQueue) : lastEvent'.mWhenNs <= e.mWhenNs
           /\ CopiesIn(lastEvent', mEventQueue') =
                  CopiesIn(lastEvent', mEventQueue) - 1]_vars

\* C2 witness: an event was dispatched while a later one, also due, stays
\* queued.
C2_Witness ==
    /\ lastEvent # NoEvent
    /\ \E e \in BagToSet(mEventQueue) :
           lastEvent.mWhenNs < e.mWhenNs /\ e.mWhenNs <= now

\* C8: a kNotifyExpectedPresentConfig dispatched in kHibernate makes the
\* state kRendering and leaves a kSystemRenderingTimeout pending.
C8_ResumeRearmsRenderingTimeout ==
    [][(lastEvent'.mEventType = kNotifyExpectedPresentConfig /\
        mState = "kHibernate") =>
           (mState' = "kRendering" /\
            HasEvent(mEventQueue', kSystemRenderingTimeout))]_vars

\* The kHibernateTimeout a hibernate handler schedules at the clock value t
WakeUpEvent(t) ==
    Event(kHibernateTimeout, t + kDefaultWakeUpTimeInPowerSaving, FALSE)

\* C9: a kSystemRenderingTimeout dispatched in kRendering makes the state
\* kHibernate and adds a kHibernateTimeout at now + the wake-up period; a
\* kHibernateTimeout dispatched in kHibernate keeps the state and adds the
\* next kHibernateTimeout at now + the wake-up period.
C9_HibernateTimer ==
    [][/\ (lastEvent'.mEventType = kSystemRenderingTimeout /\
           mState = "kRendering") =>
              /\ mState' = "kHibernate"
              /\ CopiesIn(WakeUpEvent(now), mEventQueue') =
                     CopiesIn(WakeUpEvent(now), mEventQueue) + 1
       /\ (lastEvent'.mEventType = kHibernateTimeout /\
           mState = "kHibernate") =>
              /\ mState' = "kHibernate"
              /\ CopiesIn(WakeUpEvent(now), mEventQueue') =
                     CopiesIn(WakeUpEvent(now), mEventQueue) + 1]_vars

\* C9 witness: a wake-up of the hibernating controller has scheduled the
\* next one.
C9_Witness ==
    /\ lastEvent.mEventType = kHibernateTimeout
    /\ mState = "kHibernate"
    /\ BagIn(WakeUpEvent(now), mEventQueue)

\* C10 as stated: onPresent(fence) called in kHibernate leaves the state
\* kRendering and no kHibernateTimeout in the queue.
C10_PresentLeavesHibernate ==
    [][(lastCall'.state = "kHibernate") =>
           (mState' = "kRendering" /\
            ~HasEvent(mEventQueue', kHibernateTimeout))]_vars

\* C10 amended: onPresent(fence) called in kHibernate with a pending present
\* time makes the state kRendering and removes every kHibernateTimeout in
\* its first critical section; without a pending present time it returns
\* and leaves state and queue as they were.
C10_PresentWithPendingTimeLeavesHibernate ==
    [][(lastCall'.state = "kHibernate") =>
           IF lastCall'.pending
           THEN /\ mState' = "kRendering"
                /\ ~HasEvent(mEventQueue', kHibernateTimeout)
                /\ opc' = "mid"
           ELSE /\ mState' = "kHibernate"
                /\ mEventQueue' = mEventQueue
                /\ opc' = "idle"]_vars

\* C10 witness: a present found the controller hibernating and woke it.
C10_Witness ==
    /\ lastCall = PresentCall("kHibernate", TRUE)
    /\ mState = "kRendering"
    /\ ~HasEvent(mEventQueue, kHibernateTimeout)

\* An event is added to the queue by the step
Posted ==
    \E e \in BagToSet(mEventQueue') :
        CopiesIn(e, mEventQueue') > CopiesIn(e, mEventQueue)

\* C6: a call that adds an event to the queue while the worker waits on an
\* empty queue notifies the worker.
C6_PostNotifiesWaitingWorker ==
    [][(wpc = "waitEmpty" /\ wpc' = wpc /\ Posted) => notified']_vars

\* C7: the worker leaves its loop only when thread exit was requested.
C7_LoopEndsOnlyOnExitRequest ==
    [][(wpc \notin {"start", "exited"} /\ wpc' = "exited") => mThreadExit]_vars

-----------------------------------------------------------------------------
(* Properties of the statistic *)

\* C3: getUpdatedStatistics() is a consume-once delta: called twice in a row
\* with no other call of the statistic between, it returns the second time an
\* empty map or only the off profile.
C3_SecondDeltaIsEmptyOrOff ==
    getsInARow = 2 => \A k \in DOMAIN updatedStatistics : isOff(k)

RECURSIVE SumAccumulatedTimeNs(_, _)
SumAccumulatedTimeNs(statistics, keys) ==
    IF keys = {} THEN 0
    ELSE LET k == CHOOSE x \in keys : TRUE IN
         statistics[k].mAccumulatedTimeNs +
             SumAccumulatedTimeNs(statistics, keys \ {k})

\* The time the statistic accounts for when the boot clock shows t: the time
\* of every profile that is on, the time off, and the idle time not yet
\* flushed.
AccountedTimeNs(s, t) ==
    SumAccumulatedTimeNs(s.mStatistics,
                         {k \in DOMAIN s.mStatistics : ~isOff(k)})
    + getPowerOffDurationNs(s, t)
    + (IF s.mLastRefreshTimeInBootClockNs = kDefaultInvalidPresentTimeNs
       THEN 0 ELSE t - s.mLastRefreshTimeInBootClockNs)

\* C4: after any sequence of onPresent, onNonPresentRefresh and
\* onPowerStateChange calls with increasing timestamps, the accumulated time of
\* all profiles (the off profile counted as the total off duration) plus the
\* idle remainder equals the time elapsed since the statistics started, within
\* one TE interval.
C4_AccountedTimeIsElapsedTime ==
    LET elapsed == bootClock - statistic.mStartStatisticTimeNs
        accounted == AccountedTimeNs(statistic, bootClock)
    IN /\ accounted - elapsed <= mTeIntervalNs
       /\ elapsed - accounted <= mTeIntervalNs

\* The objects that the overlapping calls leave when made one after another
SequentialResults(base, t, calls) ==
    IF Len(calls) = 1 THEN {ApplyCall(base, t, calls[1]).s}
    ELSE {ApplyCall(ApplyCall(base, t, calls[1]).s, t, calls[2]).s,
          ApplyCall(ApplyCall(base, t, calls[2]).s, t, calls[1]).s}

\* C5: the statistic is thread-safe: calls of the reporter that overlap calls
\* of the controller leave the statistics map, the current profile and the
\* last-refresh baseline as some sequential order of the calls leaves them.
C5_OverlappingCallsAreSequential ==
    (StatIdle /\ roundCalls # <<>>) =>
        statistic \in SequentialResults(roundBase, bootClock, roundCalls)

-----------------------------------------------------------------------------
(* The lock on the maximum refresh rate *)

\* The number of events of one type in the queue
CountEvents(q, type) ==
    BagCardinality([e \in {x \in BagToSet(q) : x.mEventType = type} |-> q[e]])

\* The frame rate of the minimum frame interval of the active configuration
MaxFrameRate ==
    durationNsToFreq(ConfigAt(mVrrConfigs, mVrrActiveConfig).minFrameIntervalNs)

\* A floor is in effect with a lock duration and nothing pending, and the
\* maximum frame rate differs from the floor.
LockArmed ==
    /\ mMinimumRefreshRate > 1
    /\ mMaximumRefreshRateTimeoutNs > 0
    /\ mPendingMinimumRefreshRateRequest = 0
    /\ MaxFrameRate # mMinimumRefreshRate

\* An onPresent(fence) call that carries a present time, made in
\* kAtMinimumRefreshRate while the lock is armed
PresentAtMinimum ==
    /\ lastCall' # NoCall
    /\ lastCall'.pending
    /\ LockArmed
    /\ mMinimumRefreshRatePresentState = "kAtMinimumRefreshRate"

\* What such a call does: the sub-state, the node and the queue it leaves
PresentPromotes ==
    /\ mMinimumRefreshRatePresentState' = "kAtMaximumRefreshRate"
    /\ refreshControl'.valid /\ refreshControl'.minRate = MaxFrameRate
    /\ CountEvents(mEventQueue', kMinLockTimeForPeakRefreshRate) =
           CountEvents(mEventQueue, kMinLockTimeForPeakRefreshRate) + 1
    /\ \E e \in BagToSet(mEventQueue') :
           /\ e.mEventType = kMinLockTimeForPeakRefreshRate
           /\ e.mWhenNs = mPendingCurrentPresentTime + mMaximumRefreshRateTimeoutNs
           /\ CopiesIn(e, mEventQueue') = CopiesIn(e, mEventQueue) + 1

\* A dispatch that takes the sub-machine out of kAtMaximumRefreshRate
TimeoutLeavesMaximum ==
    /\ lastEvent' # NoEvent
    /\ mMinimumRefreshRatePresentState = "kAtMaximumRefreshRate"
    /\ mMinimumRefreshRatePresentState' # "kAtMaximumRefreshRate"

\* C11: with a floor above 1 in effect, a lock duration, nothing pending and
\* a maximum frame rate other than the floor, an onPresent in
\* kAtMinimumRefreshRate moves the sub-machine to kAtMaximumRefreshRate,
\* writes the maximum frame rate into the minimum-refresh-rate field and posts
\* one kMinLockTimeForPeakRefreshRate event at present time + lock duration;
\* no timeout takes the sub-machine out of kAtMaximumRefreshRate before the
\* deadline held by the timeout event of the lock.
C11_PresentLocksMaximum ==
    [][/\ PresentAtMinimum => PresentPromotes
       /\ TimeoutLeavesMaximum => now >= mMinimumRefreshRateTimeoutWhenNs]_vars

\* The event the settle step waits for, posted for the time t
SettleEventAt(q, t) ==
    \E e \in BagToSet(q) :
        /\ e.mEventType = kMinLockTimeForPeakRefreshRate
        /\ e.mWhenNs = t + SettleDelayNs(mMinimumRefreshRate)

\* A dispatch in kAtMaximumRefreshRate leaves the sub-state or moves it to
\* kTransitionToMinimumRefreshRate and then posts the second timeout.
TimeoutSettlesFirst ==
    (lastEvent' # NoEvent /\
     mMinimumRefreshRatePresentState = "kAtMaximumRefreshRate") =>
        \/ mMinimumRefreshRatePresentState' = "kAtMaximumRefreshRate"
        \/ /\ mMinimumRefreshRatePresentState' = "kTransitionToMinimumRefreshRate"
           /\ lastEvent'.mEventType = kMinLockTimeForPeakRefreshRate
           /\ SettleEventAt(mEventQueue', now)
           /\ refreshControl' = refreshControl

\* A dispatch reaches kAtMinimumRefreshRate only from
\* kTransitionToMinimumRefreshRate, by a lock timeout, and writes the floor.
TimeoutDropsFromTransition ==
    (lastEvent' # NoEvent /\
     mMinimumRefreshRatePresentState # "kAtMinimumRefreshRate" /\
     mMinimumRefreshRatePresentState' = "kAtMinimumRefreshRate") =>
        /\ mMinimumRefreshRatePresentState = "kTransitionToMinimumRefreshRate"
        /\ lastEvent'.mEventType = kMinLockTimeForPeakRefreshRate
        /\ \/ refreshControl' = refreshControl
           \/ /\ refreshControl'.valid
              /\ refreshControl'.minRate = mMinimumRefreshRate

\* What a present in kTransitionToMinimumRefreshRate leaves: the sub-state,
\* and one lock timeout, at present time + the settle delay
PresentRestartsSettle ==
    /\ mMinimumRefreshRatePresentState' = "kTransitionToMinimumRefreshRate"
    /\ CountEvents(mEventQueue', kMinLockTimeForPeakRefreshRate) = 1
    /\ SettleEventAt(mEventQueue', mPendingCurrentPresentTime)

\* C12 as stated: a lock timeout never drops from kAtMaximumRefreshRate to
\* kAtMinimumRefreshRate directly: the first one moves to
\* kTransitionToMinimumRefreshRate and posts a second timeout one settle delay
\* later, only a timeout dispatched there moves to kAtMinimumRefreshRate and
\* writes the floor, and every present during the transition replaces the
\* pending timeout by one at present time + settle delay.
C12_SettleStepBeforeMinimum ==
    [][/\ TimeoutSettlesFirst
       /\ TimeoutDropsFromTransition
       /\ (lastCall' # NoCall /\
           mMinimumRefreshRatePresentState = "kTransitionToMinimumRefreshRate")
              => PresentRestartsSettle]_vars

\* C12, amended: the same, for the presents that carry a present time and
\* arrive outside kDisable while the lock is armed; any other present during
\* the transition leaves the sub-state and the lock timeouts as they are.
C12_SettleStepWhileLockArmed ==
    [][/\ TimeoutSettlesFirst
       /\ TimeoutDropsFromTransition
       /\ (lastCall' # NoCall /\
           mMinimumRefreshRatePresentState = "kTransitionToMinimumRefreshRate")
              => IF lastCall'.pending /\ lastCall'.state # "kDisable" /\ LockArmed
                 THEN PresentRestartsSettle
                 ELSE /\ UNCHANGED mMinimumRefreshRatePresentState
                      /\ \A e \in BagToSet(mEventQueue) \cup BagToSet(mEventQueue') :
                             e.mEventType = kMinLockTimeForPeakRefreshRate =>
                                 CopiesIn(e, mEventQueue') = CopiesIn(e, mEventQueue)]_vars

\* A present has restarted the settle step.
C12_Witness ==
    /\ lastCall # NoCall /\ lastCall.pending
    /\ LockArmed
    /\ mMinimumRefreshRatePresentState = "kTransitionToMinimumRefreshRate"
    /\ SettleEventAt(mEventQueue, mPendingCurrentPresentTime)

\* setFixedRefreshRateRange(1, 0) or (0, 0), whatever its write does
FloorTakenAway ==
    \E minimumRefreshRateIn \in {0, 1}, ok \in BOOLEAN :
        setFixedRefreshRateRange(minimumRefreshRateIn, 0, ok)

\* A present that leaves the sub-state and the lock timeouts as they are
PresentKeepsLock ==
    /\ UNCHANGED mMinimumRefreshRatePresentState
    /\ CountEvents(mEventQueue', kMinLockTimeForPeakRefreshRate) =
           CountEvents(mEventQueue, kMinLockTimeForPeakRefreshRate)

\* C13 as stated: setFixedRefreshRateRange(1, 0) or (0, 0) after a floor
\* leaves the sub-state kMinRefreshRateUnset and the lock duration 0, and
\* while no floor is in effect no onPresent changes the sub-state or posts a
\* kMinLockTimeForPeakRefreshRate event.
C13_FloorDisabled ==
    [][/\ (FloorTakenAway /\ mMinimumRefreshRate > 1) =>
              /\ mMinimumRefreshRatePresentState' = "kMinRefreshRateUnset"
              /\ mMaximumRefreshRateTimeoutNs' = 0
       /\ (lastCall' # NoCall /\ mMinimumRefreshRate = 1) => PresentKeepsLock]_vars

\* C13, amended: made while the power mode is not OFF, the call leaves the
\* floor 1, the lock duration 0 and nothing pending; the sub-state is
\* kMinRefreshRateUnset unless the write of the refresh-control node fails,
\* and is kept with the node when it fails; while the floor is 1 no onPresent
\* changes the sub-state or posts a lock timeout, and the floor stays 1 until
\* a setFixedRefreshRateRange call asks for a new one.
C13_FloorDisabledUnlessWriteFails ==
    [][/\ (FloorTakenAway /\ mMinimumRefreshRate > 1 /\
           mPowerMode # HWC_POWER_MODE_OFF) =>
              /\ mMinimumRefreshRate' = 1
              /\ mMaximumRefreshRateTimeoutNs' = 0
              /\ mPendingMinimumRefreshRateRequest' = 0
              /\ \/ mMinimumRefreshRatePresentState' = "kMinRefreshRateUnset"
                 \/ /\ mDefaultPresentTimeoutController = "kSoftware"
                    /\ UNCHANGED <<mMinimumRefreshRatePresentState,
                                   mMinimumRefreshRateTimeoutEvent, refreshControl>>
       /\ (lastCall' # NoCall /\ mMinimumRefreshRate = 1) => PresentKeepsLock
       /\ (mMinimumRefreshRate = 1 /\ mPendingMinimumRefreshRateRequest = 0 /\
           mMinimumRefreshRate' > 1) =>
              \E lock \in LockInputs, ok \in BOOLEAN :
                  setFixedRefreshRateRange(mMinimumRefreshRate', lock, ok)]_vars

\* A present made after the floor was taken away: the node holds the value
\* the call wrote.
C13_Witness ==
    /\ lastCall # NoCall /\ lastCall.pending
    /\ mMinimumRefreshRate = 1
    /\ mMinimumRefreshRatePresentState = "kMinRefreshRateUnset"
    /\ mMinimumRefreshRateTimeoutEvent = "nullopt"
    /\ refreshControl.valid /\ ~refreshControl.auto /\ refreshControl.minRate = 1

-----------------------------------------------------------------------------
(* A floor that waits for its configuration *)

\* setFixedRefreshRateRange stores a request as pending
LeavesPending ==
    /\ \E rate \in WaitRateInputs, ok \in BOOLEAN :
           setFixedRefreshRateRange(rate, 1, ok)
    /\ mPendingMinimumRefreshRateRequest' # 0
    /\ mPendingMinimumRefreshRateRequest' # mPendingMinimumRefreshRateRequest

\* C14: whenever setFixedRefreshRateRange leaves a request pending, a
\* wait-for-config timeout event is queued, and under a fairly scheduled
\* worker thread a pending request does not stay pending forever.
C14_PendingRequestIsResolved ==
    /\ [][LeavesPending =>
            HasEvent(mEventQueue', kMinimumRefreshRateWaitForConfigTimeout)]_vars
    /\ (mPendingMinimumRefreshRateRequest # 0) ~>
           (mPendingMinimumRefreshRateRequest = 0)

\* A step of onPresent(fence)
PresentStep == (\E ok \in BOOLEAN : onPresentBegin(ok)) \/ onPresentEnd

\* The pending request becomes the minimum refresh rate in effect
PendingBecomesEffective ==
    /\ mPendingMinimumRefreshRateRequest # 0
    /\ mMinimumRefreshRate # mPendingMinimumRefreshRateRequest
    /\ mMinimumRefreshRate' = mPendingMinimumRefreshRateRequest

\* setActiveVrrConfiguration to a configuration whose vsync frequency is its
\* maximum frame rate
ReadyConfigurationSet ==
    \E config \in DOMAIN mVrrConfigs, ok \in BOOLEAN :
        /\ setActiveVrrConfiguration(config, ok)
        /\ ConfigReady(mVrrConfigs[config])

\* C15: while a request is pending no step of onPresent changes the
\* sub-state, the minimum refresh rate in effect or the minimum-refresh-rate
\* field of the refresh-control node, and the pending value comes into
\* effect only in setActiveVrrConfiguration to a ready configuration or in
\* the dispatch of the align-with-present event.
C15_PendingRequestDefersPromotion ==
    [][/\ mPendingMinimumRefreshRateRequest # 0 /\ PresentStep =>
             /\ UNCHANGED <<mMinimumRefreshRatePresentState,
                            mMinimumRefreshRate,
                            mPendingMinimumRefreshRateRequest>>
             /\ refreshControl'.minRate = refreshControl.minRate
       /\ PendingBecomesEffective =>
             \/ ReadyConfigurationSet
             \/ lastEvent'.mEventType = kMinimumRefreshRateAlignWithPresent]_vars

\* A present arrived with its present time known, the lock set and a floor
\* in effect at the minimum, while another floor was pending
C15_Witness ==
    /\ lastCall # NoCall
    /\ lastCall.pending
    /\ lastCall.state # "kDisable"
    /\ mPendingMinimumRefreshRateRequest # 0
    /\ mMaximumRefreshRateTimeoutNs > 0
    /\ mMinimumRefreshRate > 1
    /\ mMinimumRefreshRate # MaxFrameRate
    /\ mMinimumRefreshRatePresentState = "kAtMinimumRefreshRate"

-----------------------------------------------------------------------------
(* The valid refresh rates *)

\* a / b rounded to the nearest integer, halves up, for a >= 0 and b > 0
Round(a, b) == IF 2 * (a % b) >= b THEN a \div b + 1 ELSE a \div b

\* the least integer that is at least a / b, for a >= 0 and b > 0
Ceil(a, b) == (a + b - 1) \div b

RatesGenerated == rpc \in {"generated", "converted"}

StrictlyIncreasing(rates) ==
    \A i \in 1 .. Len(rates) - 1 : rates[i] < rates[i + 1]

\* TE, for the configuration the list was generated for
RatesTe == Round(kNanosPerSecond, ratesConfig.vsyncPeriodNs)

\* C16 as stated: the list is strictly increasing, every element is
\* round(TE / n) for some n with ceil(F / P) <= n <= TE, and the list is not
\* empty whenever F <= TE * P.
C16_ValidRatesLattice ==
    LET P == ratesConfig.vsyncPeriodNs
        F == ratesConfig.minFrameIntervalNs
    IN  RatesGenerated /\ P > 0 /\ F > 0 =>
            /\ StrictlyIncreasing(validRefreshRates)
            /\ \A i \in 1 .. Len(validRefreshRates) :
                   \E n \in Ceil(F, P) .. RatesTe :
                       validRefreshRates[i] = Round(RatesTe, n)
            /\ F <= RatesTe * P => validRefreshRates # <<>>

\* C16, amended: the vsync counts start at round(F / P), and a vsync count
\* of 0 gives the rate 0.
C16_ValidRatesLatticeFromRounded ==
    LET P == ratesConfig.vsyncPeriodNs
        F == ratesConfig.minFrameIntervalNs
    IN  RatesGenerated /\ P > 0 /\ F > 0 =>
            /\ StrictlyIncreasing(validRefreshRates)
            /\ \A i \in 1 .. Len(validRefreshRates) :
                   \E n \in Round(F, P) .. RatesTe :
                       validRefreshRates[i] =
                           IF n = 0 THEN 0 ELSE Round(RatesTe, n)
            /\ F <= RatesTe * P => validRefreshRates # <<>>

\* The list of the 120 Hz configuration driven at a 240 Hz TE was generated:
\* it has more than one rate and ends with 120.
C16_Witness ==
    /\ rpc = "generated"
    /\ ratesConfig.vsyncPeriodNs = 4166666
    /\ ratesConfig.minFrameIntervalNs = 8333333
    /\ Len(validRefreshRates) > 1
    /\ validRefreshRates[Len(validRefreshRates)] = 120

\* The elements of a list
Elements(rates) == {rates[i] : i \in 1 .. Len(rates)}

\* C17: convertToValidRefreshRate returns an element of the list of the
\* active configuration: the smallest element that is at least the target
\* when there is one, otherwise the frequency of the minimum frame interval.
C17_ConvertedRateIsValid ==
    LET atLeast == {r \in Elements(validRefreshRates) : r >= ratesTarget} IN
    rpc = "converted" =>
        /\ validRefreshRate \in Elements(validRefreshRates)
        /\ IF atLeast # {}
           THEN validRefreshRate \in atLeast /\
                \A r \in atLeast : validRefreshRate <= r
           ELSE validRefreshRate =
                    Round(kNanosPerSecond, ratesConfig.minFrameIntervalNs)

-----------------------------------------------------------------------------
(* The records of the refreshes *)

\* The refreshes the controller reports without the presenting-when-doze flag
PlainRefreshCalls ==
    {c \in PresentCalls("controller") \cup NonPresentCalls("controller") :
        ~c.flag}

\* What a refresh at time t has to leave in the map, given the statistic that
\* the idle flush left
RefreshRecorded(flushed, c, statistics) ==
    LET t0 == flushed.mLastRefreshTimeInBootClockNs
        numVsync == Round(c.time - t0, mTeIntervalNs)
        clamped == Max(1, Min(mTeFrequency, numVsync))
        profile == [flushed.mDisplayRefreshProfile EXCEPT
                       !.mNumVsync = clamped, !.mRefreshSource = c.source]
        before(k) == RecordAt(flushed.mStatistics, k)
    IN  IF numVsync = 0
        THEN \A k \in DOMAIN statistics :
                 statistics[k].mCount = before(k).mCount
        ELSE /\ \E k \in DOMAIN statistics : SameKey(k, profile)
             /\ \A k \in DOMAIN statistics :
                    IF SameKey(k, profile)
                    THEN /\ statistics[k].mCount = before(k).mCount + 1
                         /\ statistics[k].mAccumulatedTimeNs =
                                before(k).mAccumulatedTimeNs +
                                    mTeIntervalNs * clamped
                    ELSE /\ statistics[k].mCount = before(k).mCount
                         /\ statistics[k].mAccumulatedTimeNs =
                                before(k).mAccumulatedTimeNs

OffKeys == {k \in DOMAIN statistic.mStatistics : isOff(k)}

\* C19: the map has exactly one entry whose profile is off, the one the
\* constructor created.
C19_OneOffEntry == OffKeys = {DefaultDisplayRefreshProfile}

\* The display was on, has refreshed and is off again: the map has records
\* of the time it was on, and the off entry counts a power-off.
C19_Witness ==
    /\ isOff(statistic.mDisplayRefreshProfile)
    /\ Cardinality(DOMAIN statistic.mStatistics) > 2
    /\ statistic.mStatistics[DefaultDisplayRefreshProfile].mCount > 0

-----------------------------------------------------------------------------
(* The state residencies *)

RECURSIVE SumEntryCount(_, _)
SumEntryCount(residency, names) ==
    IF names = {} THEN 0
    ELSE LET n == CHOOSE x \in names : TRUE IN
         residency[n] + SumEntryCount(residency, names \ {n})

\* C20: getStateResidency drops no record: the entry counts of the states
\* add up to the counts of the records the statistic returned.
C20_ResidencyKeepsEveryRecord ==
    LET residency == aggregateStatistics(updatedStatistics) IN
    updatedStatistics # <<>> =>
        SumEntryCount(residency, DOMAIN residency) =
            SumCount(updatedStatistics, DOMAIN updatedStatistics)

-----------------------------------------------------------------------------
(* The state names *)

\* The fps of a refresh profile is not in the fixed fps table
FpsAbsent(profile) ==
    /\ profile.mNumVsync > 0
    /\ \A count \in kFpsMappingTable :
           mTeFrequency * count # 240 * profile.mNumVsync

Last(name) == name[Len(name)]

NameOf(i) == generateStateName(toPowerStatsProfile(nameProfiles[i]))

\* Equal power stats profiles were given equal names, whatever was generated
\* in between
SameProfileSameName ==
    \A a \in DOMAIN stateNames, b \in DOMAIN stateNames :
        toPowerStatsProfile(nameProfiles[stateNames[a].of]) =
            toPowerStatsProfile(nameProfiles[stateNames[b].of])
        => stateNames[a].name = stateNames[b].name

\* A profile whose mode token is off was named "OFF"
OffIsNamedOff ==
    \A a \in DOMAIN stateNames :
        isPowerModeOff(
            toPowerStatsProfile(nameProfiles[stateNames[a].of]).mPowerMode)
        => stateNames[a].name = <<"OFF">>

BothGenerated ==
    /\ \E a \in DOMAIN stateNames : stateNames[a].of = 1
    /\ \E a \in DOMAIN stateNames : stateNames[a].of = 2

\* C21 as stated: names depend on the profile only, an off profile is named
\* "OFF", and two refresh profiles of one mode, brightness and source whose
\* fps are both absent from the table get one name, which ends in "oth".
C21_NamesAreBucketConsistent ==
    /\ SameProfileSameName
    /\ OffIsNamedOff
    /\ (BothGenerated /\ FpsAbsent(nameProfiles[1]) /\ FpsAbsent(nameProfiles[2]))
       => \A a \in DOMAIN stateNames :
              /\ stateNames[a].name = NameOf(1)
              /\ Last(stateNames[a].name) = "oth"

\* C21, amended: the one name of the two profiles ends in "oth" when the
\* refresh source is a present and the mode is not off; it ends in the token
\* of the refresh source, "np", when the source is not a present, and it is
\* "OFF" when the mode is off.
C21_NamesAreBucketConsistentPerSource ==
    /\ SameProfileSameName
    /\ OffIsNamedOff
    /\ (BothGenerated /\ FpsAbsent(nameProfiles[1]) /\ FpsAbsent(nameProfiles[2]))
       => \A a \in DOMAIN stateNames :
              /\ stateNames[a].name = NameOf(1)
              /\ Last(stateNames[a].name) =
                     IF isPowerModeOff(nameProfiles[1].mPowerMode) THEN "OFF"
                     ELSE IF isPresentRefresh(nameProfiles[1].mRefreshSource)
                     THEN "oth"
                     ELSE "np"

\* Two present profiles of 17 and 13 fps were both named, and the first again
C21_Witness ==
    /\ Len(stateNames) = 3
    /\ stateNames[1].of = 1 /\ stateNames[2].of = 2 /\ stateNames[3].of = 1
    /\ nameProfiles[1].mNumVsync = 7 /\ nameProfiles[2].mNumVsync = 9
    /\ nameProfiles[1].mPowerMode = HWC_POWER_MODE_NORMAL
    /\ isPresentRefresh(nameProfiles[1].mRefreshSource)
    /\ stateNames[3].name = <<"NBM", "oth">>

-----------------------------------------------------------------------------
(* A configuration that is not in the table *)

\* setActiveVrrConfiguration(config) with a config the table does not have
UnknownConfigurationSet ==
    \E config \in ConfigInputs, ok \in BOOLEAN :
        /\ config \notin DOMAIN mVrrConfigs
        /\ setActiveVrrConfiguration(config, ok)

\* C22: setActiveVrrConfiguration with an id absent from the table changes
\* nothing: the table and the active configuration, the state, the queue, the
\* pending request, the minimum refresh rate state, the written
\* refresh-control value and the statistics stay as they were.
C22_UnknownConfigurationChangesNothing ==
    [][UnknownConfigurationSet =>
           UNCHANGED <<cfgVars, mState, mEnabled, mPowerMode, mEventQueue,
                       recVars, minVars, notified, workerVars, statVars>>]_vars

\* An unknown configuration was set while a request was pending and events
\* were queued: the step took a request of the budget and nothing else
C22_Witness ==
    /\ 2 \notin DOMAIN mVrrConfigs
    /\ mVrrConfigs # <<>>
    /\ mPendingMinimumRefreshRateRequest # 0
    /\ ~QueueEmpty(mEventQueue)
    /\ ENABLED (/\ setActiveVrrConfiguration(2, TRUE)
                /\ UNCHANGED <<cfgVars, mEventQueue, minVars>>)

-----------------------------------------------------------------------------
(* A table of configurations is taken whole or not at all *)

\* A configuration of the table is fully supported and has no
\* notifyExpectedPresentConfig
Incomplete(configs) ==
    \E id \in DOMAIN configs :
        configs[id].isFullySupported /\ configs[id].TimeoutNs = -1

\* C23: setVrrConfigurations(map) with an incomplete configuration leaves the
\* stored table and the stored lists of valid rates as they were; any other
\* map replaces both, the lists being those generated from the new table.
C23_ConfigurationsAllOrNothing ==
    [][\A configs \in ConfigTableInputs :
           setVrrConfigurations(configs) =>
               IF Incomplete(configs)
               THEN UNCHANGED <<mVrrConfigs, mValidRefreshRates>>
               ELSE /\ mVrrConfigs' = configs
                    /\ DOMAIN mValidRefreshRates' = DOMAIN configs
                    /\ \A id \in DOMAIN configs :
                           mValidRefreshRates'[id] =
                               generateValidRefreshRates(configs[id])]_vars

\* A table of two configurations is stored with its lists, and a table with
\* an incomplete configuration is handed in
C23_Witness ==
    /\ DOMAIN mVrrConfigs = {0, 1}
    /\ mVrrConfigs[0] = VrrConfig(8333333, 16666666, TRUE, 1)
    /\ DOMAIN mValidRefreshRates = {0, 1}
    /\ mValidRefreshRates[0][Len(mValidRefreshRates[0])] = 60
    /\ ENABLED (/\ setVrrConfigurations(
                       0 :> VrrConfig(4166666, 8333333, TRUE, -1))
                /\ UNCHANGED cfgVars)

-----------------------------------------------------------------------------
(* Enabling and disabling *)

\* C24: setEnable(b) of a controller whose enabled state is b changes
\* nothing; setEnable(false) of an enabled controller leaves the queue empty
\* and the state and the power mode as they were.
C24_SetEnableIdempotentAndClears ==
    [][\A isEnabled \in BOOLEAN :
           setEnable(isEnabled) =>
               IF mEnabled = isEnabled
               THEN UNCHANGED <<now, mState, mEnabled, mThreadExit, mPowerMode,
                                mEventQueue, workerVars, notified, recVars,
                                opc, cfgVars, minVars>>
               ELSE /\ mEnabled' = isEnabled
                    /\ UNCHANGED <<mState, mPowerMode>>
                    /\ ~isEnabled => QueueEmpty(mEventQueue')]_vars

\* An enabled controller with events of two types queued is disabled
C24_Witness ==
    /\ mEnabled
    /\ mState # "kDisable"
    /\ \E a \in BagToSet(mEventQueue), b \in BagToSet(mEventQueue) :
           a.mEventType # b.mEventType
    /\ ENABLED (setEnable(FALSE) /\ QueueEmpty(mEventQueue'))

-----------------------------------------------------------------------------
(* The present timeout controller *)

\* setPresentTimeoutController(kSoftware) while the display is on and a
\* minimum refresh rate is active
SoftwareAskedUnderFloor ==
    /\ mPowerMode = HWC_POWER_MODE_NORMAL
    /\ mMinimumRefreshRate > 1
    /\ \E ok \in BOOLEAN : setPresentTimeoutController("kSoftware", ok)

\* setPresentTimeoutController while the power mode is not NORMAL
PowerModeKeepsController ==
    \A controllerType \in ControllerTypeInputs, ok \in BOOLEAN :
        (/\ mPowerMode # HWC_POWER_MODE_NORMAL
         /\ setPresentTimeoutController(controllerType, ok))
        => UNCHANGED <<mDefaultPresentTimeoutController,
                       mPresentTimeoutController>>

-----------------------------------------------------------------------------
(* The two phases of a power mode change *)

DozeModes == {HWC_POWER_MODE_DOZE, HWC_POWER_MODE_DOZE_SUSPEND}

\* The pre-phase of a change into a doze mode: the effective controller is
\* the hardware one, the value written has the auto-mode bit, no vendor
\* rendering timeout is queued, and the power mode and the state stay
PrePhaseDelegates ==
    \A powerMode \in DozeModes, ok \in BOOLEAN :
        (/\ mPowerMode # powerMode
         /\ powerModeChange.to = -1
         /\ preSetPowerMode(powerMode, ok)
         /\ powerModeChange'.to = powerMode)
        => /\ mPresentTimeoutController' = "kHardware"
           /\ refreshControl' # refreshControl => refreshControl'.auto
           /\ ~HasEvent(mEventQueue', kVendorRenderingTimeoutInit)
           /\ ~HasEvent(mEventQueue', kVendorRenderingTimeoutPost)
           /\ UNCHANGED <<mPowerMode, mState>>

\* The post-phase changes the mode into a doze mode
PostPhaseEntersDoze ==
    /\ powerModeChange.to \in DozeModes
    /\ powerModeChange'.to = -1
    /\ mPowerMode' = powerModeChange.to
    /\ mPowerMode # mPowerMode'

-----------------------------------------------------------------------------
(* The listeners of power mode changes *)

\* postSetPowerMode(m) runs with m a known mode other than the recorded one
PostPhaseChanges ==
    /\ PostStep
    /\ powerModeChange.to \in PowerModes
    /\ powerModeChange.to # mPowerMode

\* postSetPowerMode(m) runs with m the recorded mode
PostPhaseRepeats ==
    /\ PostStep
    /\ powerModeChange.to = mPowerMode

\* Every registered listener is called with (previous mode, m), and m is
\* recorded
ListenersCalledOnChange ==
    PostPhaseChanges =>
        /\ listenerCalls' = [from |-> mPowerMode, to |-> powerModeChange.to,
                             listeners |-> mPowerModeListeners]
        /\ mPowerMode' = powerModeChange.to

\* The recorded mode changes only with a notification whose 'to' it is, so
\* the 'from' of a notification is the 'to' of the one before
NotificationsChain ==
    mPowerMode' # mPowerMode =>
        /\ listenerCalls'.listeners # {}
        /\ listenerCalls'.from = mPowerMode
        /\ listenerCalls'.to = mPowerMode'

\* The power mode the statistic tracks is the 'from' it is called with
StatisticTracksFrom ==
    PostPhaseChanges =>
        statistic.mDisplayRefreshProfile.mPowerMode = listenerCalls'.from

\* No listener is called and nothing of the controller or the statistic
\* changes
NoListenerOnRepeat ==
    PostPhaseRepeats =>
        /\ listenerCalls'.listeners = {}
        /\ UNCHANGED <<now, mState, mEnabled, mThreadExit, mPowerMode,
                       mEventQueue, workerVars, notified, recVars, opc,
                       cfgVars, minVars, statVars>>

\* C27: postSetPowerMode(m) with m a known mode other than the recorded one
\* calls every registered listener once with (previous mode, m) and records
\* m, the 'from' of each notification is the 'to' of the previous one and
\* the power mode the statistic tracks; with m the recorded mode it calls no
\* listener and changes no state.
C27_ListenersFollowPowerMode ==
    /\ [][ListenersCalledOnChange]_vars
    /\ [][NotificationsChain]_vars
    /\ [][StatisticTracksFrom]_vars
    /\ [][NoListenerOnRepeat]_vars

\* The parts of C27 about the controller alone
ControllerNotifiesListeners ==
    /\ [][ListenersCalledOnChange]_vars
    /\ [][NotificationsChain]_vars
    /\ [][NoListenerOnRepeat]_vars

\* The statistic tracks the mode it is called from unless that mode is
\* DOZE_SUSPEND, which it tracks as OFF
StatisticTracksFromAsOff ==
    [][PostPhaseChanges =>
          statistic.mDisplayRefreshProfile.mPowerMode =
              IF listenerCalls'.from = HWC_POWER_MODE_DOZE_SUSPEND
              THEN HWC_POWER_MODE_OFF
              ELSE listenerCalls'.from]_vars

\* The display leaves DOZE_SUSPEND: the listeners are about to be called
\* from DOZE_SUSPEND
LeavesDozeSuspend ==
    /\ mPowerMode = HWC_POWER_MODE_DOZE_SUSPEND
    /\ powerModeChange.to = HWC_POWER_MODE_NORMAL
    /\ ENABLED PostStep

\* postSetPowerMode is about to run with the recorded mode
RepeatsPowerMode ==
    /\ mPowerMode = HWC_POWER_MODE_DOZE
    /\ powerModeChange.to = HWC_POWER_MODE_DOZE
    /\ listenerCalls.listeners # {}
    /\ ENABLED PostStep
-----------------------------------------------------------------------------
(* What setFixedRefreshRateRange reports *)

\* The rate the call works with
AskedRate(minimumRefreshRateIn) ==
    IF minimumRefreshRateIn = 0 THEN 1 ELSE minimumRefreshRateIn

\* The call is made while the power is off
AskedWhilePowerOff == mPowerMode = HWC_POWER_MODE_OFF

\* The call repeats the request that waits, or asks for the rate in force
AskedAgain(minimumRefreshRateIn) ==
    \/ mPendingMinimumRefreshRateRequest = AskedRate(minimumRefreshRateIn)
    \/ mMinimumRefreshRate = AskedRate(minimumRefreshRateIn)

\* The call leaves a request waiting for its configuration
Queued(minimumRefreshRateIn) ==
    mPendingMinimumRefreshRateRequest' = AskedRate(minimumRefreshRateIn)

\* The call stores the rate, and the write of the refresh-control node that
\* applies it fails: the node keeps its value although the rate calls for
\* another one
WorkerWriteFailed(minimumRefreshRateIn, ok) ==
    /\ ~ok
    /\ ~AskedWhilePowerOff
    /\ mMinimumRefreshRate # AskedRate(minimumRefreshRateIn)
    /\ mMinimumRefreshRate' = AskedRate(minimumRefreshRateIn)
    /\ \/ AskedRate(minimumRefreshRateIn) > 1
       \/ mDefaultPresentTimeoutController = "kSoftware"
    /\ refreshControl' = refreshControl

\* C28: setFixedRefreshRateRange returns -1 exactly when the write of the
\* refresh-control node by its worker fails; while the power is off, for a
\* repeated or unchanged request and for a queued request it returns a
\* non-negative status.
C28_OnlyFailedWriteReported ==
    [][\A rate \in RateInputs, lock \in LockInputs, ok \in BOOLEAN :
          setFixedRefreshRateRange(rate, lock, ok) =>
              LET ret == setFixedRefreshRateRangeReturns(rate, lock, ok) IN
              /\ ret = -1 <=> WorkerWriteFailed(rate, ok)
              /\ ret # -1 => ret >= 0
              /\ AskedWhilePowerOff => ret >= 0
              /\ AskedAgain(rate) => ret >= 0
              /\ Queued(rate) => ret >= 0]_vars

\* A floor of 30 can be asked for with a failing write: the rate is stored
\* and -1 is returned
C28_Witness ==
    /\ mPowerMode = HWC_POWER_MODE_NORMAL
    /\ mMinimumRefreshRate = 1
    /\ setFixedRefreshRateRangeReturns(30, 0, FALSE) = -1
    /\ ENABLED (/\ setFixedRefreshRateRange(30, 0, FALSE)
                /\ mMinimumRefreshRate' = 30)
-----------------------------------------------------------------------------
(* The node writes and mMutex *)

\* C29: no node is written by a thread that holds mMutex.
C29_NoWriteUnderMutex == ~nodeWrite.locked

\* The nodes written after the release: the expected present time and frame
\* interval of notifyExpectedPresent, and the frame rate of the worker
WritesAfterRelease ==
    nodeWrite.node \in {"frame_interval_ns", "kFrameRateNodeName"} => ~nodeWrite.locked

\* mMutex is held by a thread inside a critical section only
MutexHeldInside ==
    \A t \in IoThreads :
        mMutex = t <=>
            /\ tio[t].call # "none"
            /\ \E i \in 1 .. tio[t].pc - 1 :
                   /\ IoScript(tio[t].call)[i] = IoLock
                   /\ \A j \in i + 1 .. tio[t].pc - 1 :
                          IoScript(tio[t].call)[j] # IoUnlock
-----------------------------------------------------------------------------
(* Dropping events by type *)

\* The events of the queue whose type has every bit of the target
Matching(q, target) ==
    {e \in BagToSet(q) : \A bit \in target : bit \in e.mEventType}

\* The number of events of one type in the queue
CountOfType(q, type) ==
    BagCardinality([e \in {f \in BagToSet(q) : f.mEventType = type} |-> q[e]])

\* The drop removes the matching events and keeps every other event as
\* often as it was queued, with its deadline
DropsExactlyMatching ==
    \A target \in DropTargetInputs :
        QueueDrop(target) =>
            /\ BagToSet(mEventQueue') =
                   BagToSet(mEventQueue) \ Matching(mEventQueue, target)
            /\ \A e \in BagToSet(mEventQueue') :
                   CopiesIn(e, mEventQueue') = CopiesIn(e, mEventQueue)

\* A pop returns an event whose deadline no queued event precedes
PopsInDeadlineOrder ==
    QueuePop =>
        /\ lastEvent' \in BagToSet(mEventQueue)
        /\ \A e \in BagToSet(mEventQueue) : lastEvent'.mWhenNs <= e.mWhenNs

\* With events of the types A, B, A queued, dropping A leaves the one B
DropOfTwoLeavesThird ==
    \A A \in DropTypeInputs : \A B \in DropTypeInputs \ {A} :
        (/\ BagCardinality(mEventQueue) = 3
         /\ CountOfType(mEventQueue, A) = 2
         /\ CountOfType(mEventQueue, B) = 1
         /\ QueueDrop(A))
        => /\ BagCardinality(mEventQueue') = 1
           /\ CountOfType(mEventQueue', B) = 1
           /\ BagToSet(mEventQueue') \subseteq BagToSet(mEventQueue)

\* Dropping kGeneralEventMask removes every general event and no callback
\* event
DropOfGeneralMask ==
    QueueDrop(kGeneralEventMask) =>
        /\ \A e \in BagToSet(mEventQueue') : 28 \notin e.mEventType
        /\ \A e \in BagToSet(mEventQueue) :
               29 \in e.mEventType =>
                   CopiesIn(e, mEventQueue') = CopiesIn(e, mEventQueue)

\* C30: dropEventLocked(T) removes exactly the events whose type has every
\* bit of T and keeps the others with their deadlines, so pops return the
\* survivors in deadline order; with A, B, A posted, dropEventLocked(A)
\* leaves the one B; dropEventLocked(kGeneralEventMask) removes every
\* general event and no callback event.
C30_DropRemovesExactlyMatching ==
    /\ [][DropsExactlyMatching]_vars
    /\ [][PopsInDeadlineOrder]_vars
    /\ [][DropOfTwoLeavesThird]_vars
    /\ [][DropOfGeneralMask]_vars

\* Two rendering timeouts posted around a callback event of the earliest
\* deadline and a drop of the rendering timeouts that leaves the callback
\* event, which a pop returns
C30_Witness ==
    /\ mEventQueue =
           SetToBag({Event(kSystemRenderingTimeout, 2, FALSE),
                     Event(kMinLockTimeForPeakRefreshRate, 1, FALSE),
                     Event(kSystemRenderingTimeout, 3, FALSE)})
    /\ ENABLED (/\ QueueDrop(kSystemRenderingTimeout)
                /\ mEventQueue' =
                       SetToBag({Event(kMinLockTimeForPeakRefreshRate, 1, FALSE)}))
-----------------------------------------------------------------------------
(* The baseline of the statistic *)

BaselineInvalid(s) ==
    s.mLastRefreshTimeInBootClockNs = kDefaultInvalidPresentTimeNs

\* The counts and accumulated times of the records
CountsAndTimes(s) ==
    [k \in DOMAIN s.mStatistics |->
        <<s.mStatistics[k].mCount, s.mStatistics[k].mAccumulatedTimeNs>>]

\* A call of onPowerStateChange into OFF or DOZE_SUSPEND leaves the sentinel
OffSetsSentinel ==
    \A c \in PowerCalls("controller") :
        (AtomicCall(c) /\ c.from # c.to /\ isPowerModeOff(c.to))
        => BaselineInvalid(statistic')

\* The sentinel stays until a refresh
SentinelStaysUntilRefresh ==
    (BaselineInvalid(statistic) /\ ~BaselineInvalid(statistic'))
    => \E c \in PresentCalls("controller") \cup NonPresentCalls("controller") :
           AtomicCall(c)

\* A refresh that finds the sentinel sets the baseline and changes no record
FirstRefreshSetsBaseline ==
    \A c \in PresentCalls("controller") \cup NonPresentCalls("controller") :
        (AtomicCall(c) /\ BaselineInvalid(statistic))
        => /\ statistic'.mLastRefreshTimeInBootClockNs = c.time
           /\ CountsAndTimes(statistic') = CountsAndTimes(statistic)

\* A change into DOZE counts the record of the doze cadence once
DozeCountsOnce ==
    \A c \in PowerCalls("controller") :
        (AtomicCall(c) /\ c.from # c.to /\ c.to = HWC_POWER_MODE_DOZE)
        => LET doze == statistic'.mDisplayRefreshProfile IN
           /\ doze.mPowerMode = HWC_POWER_MODE_DOZE
           /\ doze.mNumVsync = mTeFrequency
           /\ RecordAt(statistic'.mStatistics, doze).mCount =
                  RecordAt(statistic.mStatistics, doze).mCount + 1

\* C31: the baseline is the sentinel after construction and after every
\* onPowerStateChange into OFF or DOZE_SUSPEND, the first refresh that
\* follows only sets the baseline, and a change into DOZE counts the record
\* of the doze cadence (numVsync = TE frequency) at once.
C31_FirstRefreshOnlySetsBaseline ==
    /\ BaselineInvalid(statistic)
    /\ [][OffSetsSentinel]_vars
    /\ [][SentinelStaysUntilRefresh]_vars
    /\ [][FirstRefreshSetsBaseline]_vars
    /\ [][DozeCountsOnce]_vars

\* The display went off and into doze, whose record is counted, and the
\* first frame of the doze can be presented
C31_Witness ==
    /\ statistic.mDisplayRefreshProfile.mPowerMode = HWC_POWER_MODE_DOZE
    /\ BaselineInvalid(statistic)
    /\ RecordAt(statistic.mStatistics, statistic.mDisplayRefreshProfile).mCount = 2
    /\ RecordAt(statistic.mStatistics, DefaultDisplayRefreshProfile).mCount = 1
    /\ ENABLED (Stat(onPresent) /\ ~BaselineInvalid(statistic'))
-----------------------------------------------------------------------------
(* The order of the keys is a strict weak ordering *)

Compared == orderLess # <<>>

\* a < b as operator< returned it, and a and b being one key of the map
Less(i, j) == orderLess[i][j]
Equivalent(i, j) == ~Less(i, j) /\ ~Less(j, i)

StrictWeakOrdering ==
    /\ \A i \in {1, 2, 3} : ~Less(i, i)
    /\ \A i \in {1, 2, 3} : \A j \in {1, 2, 3} : Less(i, j) => ~Less(j, i)
    /\ (Less(1, 2) /\ Less(2, 3)) => Less(1, 3)
    /\ (Equivalent(1, 2) /\ Equivalent(2, 3)) => Equivalent(1, 3)

\* The fields non-off keys are ordered by, most significant first
OrderedFields(key) ==
    <<key.mPowerMode, key.mActiveConfigId, BrightnessRank(key.mBrightnessMode),
      key.mNumVsync, key.mRefreshSource>>

OffKeysEquivalent ==
    \A i \in {1, 2, 3} : \A j \in {1, 2, 3} :
        (isOff(orderKeys[i]) /\ isOff(orderKeys[j])) => Equivalent(i, j)

OnKeysByFields ==
    \A i \in {1, 2, 3} : \A j \in {1, 2, 3} :
        (~isOff(orderKeys[i]) /\ ~isOff(orderKeys[j]))
        => (Less(i, j) <=>
               LexLess(OrderedFields(orderKeys[i]), OrderedFields(orderKeys[j])))

\* C32, of every key: operator< of the statistics keys is a strict weak ordering:
\* irreflexive, asymmetric and transitive, with any two off keys equivalent
\* and the other keys ordered by power mode, configuration id, brightness
\* mode, vsync count and refresh source.
C32_StrictWeakOrdering ==
    Compared => (StrictWeakOrdering /\ OffKeysEquivalent /\ OnKeysByFields)

\* C32, of the keys the statistic stores: operator< is a strict weak
\* ordering of the keys whose power mode is OFF, DOZE or NORMAL, with any two
\* off keys equivalent and the other keys ordered by power mode,
\* configuration id, brightness mode, vsync count and refresh source.
C32_StrictWeakOrderingOfStoredKeys ==
    (Compared /\ \A i \in {1, 2, 3} :
                     orderKeys[i].mPowerMode # HWC_POWER_MODE_DOZE_SUSPEND)
    => (StrictWeakOrdering /\ OffKeysEquivalent /\ OnKeysByFields)

\* An off key, a key of DOZE and a key of NORMAL of a lower configuration id
\* and brightness, compared: the off key is the least
C32_Witness ==
    /\ Compared
    /\ orderKeys[1] = [mPowerMode |-> HWC_POWER_MODE_OFF, mActiveConfigId |-> 1,
                       mBrightnessMode |-> "kHighBrightnessMode",
                       mNumVsync |-> 2,
                       mRefreshSource |-> kRefreshSourceActivePresent]
    /\ orderKeys[2] = [orderKeys[1] EXCEPT !.mPowerMode = HWC_POWER_MODE_DOZE]
    /\ orderKeys[3] = [mPowerMode |-> HWC_POWER_MODE_NORMAL, mActiveConfigId |-> 0,
                       mBrightnessMode |-> "kNormalBrightnessMode",
                       mNumVsync |-> 1,
                       mRefreshSource |-> kRefreshSourceIdlePresent]
    /\ Less(1, 2) /\ Less(2, 3) /\ Less(1, 3)
-----------------------------------------------------------------------------
(* The states of the power stats are well-formed *)

ProviderConstructed == provider.left = {}

IdsAreIndexes ==
    /\ Len(provider.mStates) = provider.index
    /\ Len(provider.mStateResidency) = provider.index
    /\ \A i \in 1..provider.index :
           /\ provider.mStates[i].id = i - 1
           /\ provider.mStateResidency[i].id = i - 1

OneNameOneId ==
    \A i \in 1..Len(provider.mStates) : \A j \in 1..Len(provider.mStates) :
        provider.mStates[i].name = provider.mStates[j].name => i = j

ProfilesMapToTheirName ==
    /\ DOMAIN provider.mPowerStatsProfileToIdMap = mUniqueStates
    /\ \A state \in mUniqueStates :
           LET id == provider.mPowerStatsProfileToIdMap[state] IN
           /\ id \in 0..(provider.index - 1)
           /\ provider.mStates[id + 1].name = generateStateName(state)

NoDozeNonPresent ==
    \A state \in DOMAIN provider.mPowerStatsProfileToIdMap :
        ~(state.mPowerMode = HWC_POWER_MODE_DOZE
          /\ ~isPresentRefresh(state.mRefreshSource))

GetStatesReturnsTheList ==
    \A i \in 1..Len(gotStates) : gotStates[i] = provider.mStates

\* C33: the states the constructor builds are well-formed: the ids are
\* 0..N-1, every id has one name and every name one id, entry i of
\* getStates() and of the residency array carry id i, every candidate
\* profile maps to the id of the name generated for it, no state is of
\* DOZE and a non-present refresh, and every call of getStates() returns
\* the same list.
C33_StatesWellFormed ==
    ProviderConstructed =>
        /\ IdsAreIndexes
        /\ OneNameOneId
        /\ ProfilesMapToTheirName
        /\ NoDozeNonPresent
        /\ GetStatesReturnsTheList

\* The provider is constructed, several profiles have the id of one name,
\* and getStates was called twice
C33_Witness ==
    /\ ProviderConstructed
    /\ provider.index > 1
    /\ Cardinality(mUniqueStates) > provider.index
    /\ \E a \in mUniqueStates : \E b \in mUniqueStates \ {a} :
           provider.mPowerStatsProfileToIdMap[a] =
               provider.mPowerStatsProfileToIdMap[b]
    /\ Len(gotStates) = 2
-----------------------------------------------------------------------------
(* The rendering timeouts pending *)

\* C34: at most one kSystemRenderingTimeout event is pending at any time.
C34_OneRenderingTimeoutPending ==
    CountOfType(mEventQueue, kSystemRenderingTimeout) <= 1
-----------------------------------------------------------------------------
(* Dispatch and the enabled flag *)

\* The worker pops an event and dispatches it
WorkerDispatches == wpc # "start" /\ lastEvent' # NoEvent

\* C35: the worker thread dispatches no event while the controller is not
\* enabled.
C35_NoDispatchWhileDisabled == [][WorkerDispatches => mEnabled]_vars
-----------------------------------------------------------------------------
(* The two mutexes are taken in one order *)

WaitsFor(t, mutex) == LockAt(t).op = "lock" /\ LockAt(t).mutex = mutex

ControllerThenStatistic ==
    \A t \in LockThreads :
        WaitsFor(t, "controller") => mutexState.owner["statistic"] # t

NoReacquisition ==
    \A t \in LockThreads : \A mutex \in Mutexes :
        WaitsFor(t, mutex) => mutexState.owner[mutex] # t

EveryAcquisitionSucceeds ==
    \A t \in LockThreads : \A mutex \in Mutexes :
        WaitsFor(t, mutex) ~> (mutexState.owner[mutex] = t)

-----------------------------------------------------------------------------
(* The record of the off profile *)

OffCount(s) == RecordAt(s.mStatistics, DefaultDisplayRefreshProfile).mCount

\* The count of the off record changes only in a change into OFF or
\* DOZE_SUSPEND, by one
OffCountByPowerChange ==
    OffCount(statistic') # OffCount(statistic)
    => /\ OffCount(statistic') = OffCount(statistic) + 1
       /\ \E c \in PowerCalls("controller") :
              AtomicCall(c) /\ c.from # c.to /\ isPowerModeOff(c.to)

\* A refresh while the tracked power mode is off changes no record
RefreshWhileOffKeepsRecords ==
    RefreshWhileOff => CountsAndTimes(statistic') = CountsAndTimes(statistic)

\* C37: the count of the off record changes only in onPowerStateChange into
\* OFF or DOZE_SUSPEND, by one for each transition, and an onPresent or
\* onNonPresentRefresh that arrives while the tracked power mode is off
\* changes no record's count or accumulated time.
C37_OffRecordOnlyByPowerChange ==
    /\ [][OffCountByPowerChange]_vars
    /\ [][RefreshWhileOffKeepsRecords]_vars
-----------------------------------------------------------------------------
(* The residency from one getStateResidency to the next *)

\* What getStateResidency returns after the map the statistic returned: a
\* state keeps the residency of the call that last touched it, and every call
\* touches the states of all the records the statistic holds.
EntryCountNow == aggregateStatistics(updatedStatistics)
TimeInStateNow == aggregateTimeInState(updatedStatistics)
EntryCountNext == aggregateStatistics(updatedStatistics')
TimeInStateNext == aggregateTimeInState(updatedStatistics')

ResidencyGrows ==
    \A name \in DOMAIN EntryCountNow :
        /\ name \in DOMAIN EntryCountNext
        /\ EntryCountNext[name] >= EntryCountNow[name]
        /\ TimeInStateNext[name] >= TimeInStateNow[name]

\* C38: the totalStateEntryCount and the totalTimeInStateMs of every state are
\* at least those of the call before, whatever refreshes and power mode
\* changes the statistic was given in between.
C38_ResidencyMonotone == [][ResidencyGrows]_vars
-----------------------------------------------------------------------------
(* The present timeout controller under a minimum refresh rate *)

\* C39: whenever a minimum refresh rate above 1 is in effect, the effective
\* present timeout controller is the hardware one and the refresh-control
\* value last written has the auto-mode bit set; no power mode change,
\* setPresentTimeoutController or vendor present timeout makes it software.
C39_HardwareUnderFloor ==
    mMinimumRefreshRate > 1 =>
        /\ mPresentTimeoutController = "kHardware"
        /\ refreshControl.auto
-----------------------------------------------------------------------------
(* The deadline of the rendering timeout a present arms *)

\* The step queues a system rendering timeout with this deadline
PostsRenderingTimeoutAt(when) ==
    CopiesIn(Event(kSystemRenderingTimeout, when, FALSE), mEventQueue') >
        CopiesIn(Event(kSystemRenderingTimeout, when, FALSE), mEventQueue)

\* C40: for a fully supported active configuration the system rendering
\* timeout that onPresent posts is due TimeoutNs after the steady clock time
\* of the call, as the ones postSetPowerMode(NORMAL) and
\* setActiveVrrConfiguration post.
C40_PresentTimeoutOffset ==
    [][(/\ onPresentEnd
        /\ ConfigAt(mVrrConfigs, mVrrActiveConfig).isFullySupported)
       => PostsRenderingTimeoutAt(
              now + ConfigAt(mVrrConfigs, mVrrActiveConfig).TimeoutNs)]_vars
====
